---- MODULE Spec2Model ----
(***************************************************************************)
(* A model of the flax entity-component-system core: the change lists of   *)
(* src/archetype/changes.rs, the entity identifiers of src/entity/mod.rs   *)
(* and the World of src/world.rs with the archetype graph it drives.       *)
(***************************************************************************)
EXTENDS Integers, Sequences, FiniteSets, TLC

(***************************************************************************)
(* Bounds of the model.                                                    *)
(***************************************************************************)
\* slots of a change list range over 0 .. MaxSlot-1
MaxSlot == 3
\* ticks of the changes given to a change list range over 1 .. MaxTick
MaxTick == 3
\* number of change list operations in one behaviour
MaxOps == 4
\* number of components, with ids 1 .. NumComponents
NumComponents == 2
\* component values range over 1 .. MaxValue
MaxValue == 2
\* number of spawn and spawn_with calls on the World in one behaviour
MaxSpawns == 2
\* number of archetypes of the World, the root included
MaxArchetypes == 4
\* number of World operations in one behaviour
MaxWorldOps == 4
\* number of entity indices the entity store hands out when driven on its own
MaxStoreIndex == 2
\* despawns of an index other than the first, when the store is driven on its own
MaxRespawn == 1
\* number of World operations in one behaviour with queries
MaxQueryWorldOps == 2
\* number of query borrows in one behaviour
MaxBorrows == 2
\* number of get calls on the borrows of one behaviour
MaxGets == 2
\* number of World operations before the schedule is executed
MaxExecWorldOps == 2
\* number of World operations before the first borrow of a value
MaxBorrowWorldOps == 2
\* number of borrows of values held at once
MaxRefs == 3
\* number of archetypes of a relation graph
MaxTopoArchetypes == 3
\* number of archetypes that hold the relation targets of one archetype
MaxTopoTargets == 2
\* number of values pushed into the storages
MaxStorValues == 3
\* number of operations on the storages before they are dropped
MaxStorOps == 6
\* number of systems of a schedule of any accesses
NumSchedSystems == 3
\* number of components the systems of such a schedule access
NumSchedComponents == 2
\* number of World operations before the change ticks are exercised
MaxTickWorldOps == 2
\* number of borrows taken while the change ticks are exercised
MaxTickBorrows == 3

(***************************************************************************)
(* Option values: None is the empty sequence, Some(x) the sequence <<x>>.  *)
(***************************************************************************)
None == <<>>
Some(x) == <<x>>
IsSome(o) == o /= <<>>
Unwrap(o) == o[1]

Min(a, b) == IF a <= b THEN a ELSE b
Max(a, b) == IF a >= b THEN a ELSE b
Clamp(x, lo, hi) == Max(lo, Min(x, hi))

(***************************************************************************)
(* Slice: a half-open range [start, end) of slots.                         *)
(***************************************************************************)
Slice_new(s, e) == [start |-> s, end |-> e]
Slice_single(slot) == Slice_new(slot, slot + 1)
Slice_is_empty(a) == a.start = a.end
Slice_contains(a, slot) == a.start <= slot /\ slot < a.end

\* a < b: a lies strictly to the left of b (partial order of intervals)
Slice_lt(a, b) == a.end <= b.start

\* the union of two slices when they are adjacent or overlapping
Slice_union(a, b) ==
    IF Slice_is_empty(a) THEN Some(b)
    ELSE IF Slice_is_empty(b) THEN Some(a)
    ELSE IF a.start <= b.end /\ b.start <= a.end
         THEN Some(Slice_new(Min(a.start, b.start), Max(a.end, b.end)))
         ELSE None

\* a minus b; None when b lies strictly inside a, so that a would be split
Slice_difference(a, b) ==
    IF b.start <= a.start
    THEN Some(Slice_new(Clamp(b.end, a.start, a.end), a.end))
    ELSE IF b.end >= a.end
         THEN Some(Slice_new(a.start, Clamp(b.start, a.start, a.end)))
         ELSE None

\* (left, middle, right) of a around b, when b lies inside a
Slice_split_with(a, b) ==
    IF b.start < a.start \/ b.end > a.end \/ Slice_is_empty(b)
    THEN None
    ELSE Some(<<Slice_new(a.start, b.start), b, Slice_new(b.end, a.end)>>)

(***************************************************************************)
(* Change and ChangeList (src/archetype/changes.rs).                       *)
(***************************************************************************)
Change_new(slice, tick, kind) == [slice |-> slice, tick |-> tick, kind |-> kind]
Change_modified(slice, tick) == Change_new(slice, tick, "Modified")
Change_inserted(slice, tick) == Change_new(slice, tick, "Inserted")
Change_removed(slice, tick) == Change_new(slice, tick, "Removed")

\* assert_ordered: sorting by slice.start (a stable sort) leaves the list as
\* it is, which is the case iff the starts never decrease
ChangeList_ordered(inner) ==
    \A k \in 1 .. Len(inner) - 1 : inner[k].slice.start <= inner[k + 1].slice.start

InsertAt(s, k, x) == SubSeq(s, 1, k) \o <<x>> \o SubSeq(s, k + 1, Len(s))

\* one call of the closure given to retain_mut in ChangeList::set; acc holds
\* the captured change, i, insert_point and joined and the retained entries
ChangeList_set_step(acc, v) ==
    IF Slice_is_empty(acc.change.slice)
    THEN [acc EXCEPT !.out = Append(@, v)]
    ELSE
      LET \* the entry, now v2, is retained unless it is empty
          retain(v2, c1, joined) ==
              IF Slice_is_empty(v2)
              THEN [acc EXCEPT !.change.slice = c1, !.joined = joined]
              ELSE [change |-> [acc.change EXCEPT !.slice = c1],
                    joined |-> joined,
                    i |-> acc.i + 1,
                    insert_point |-> IF Slice_lt(v2, c1) THEN acc.i + 1
                                     ELSE acc.insert_point,
                    out |-> Append(acc.out, [v EXCEPT !.slice = v2])]
          \* the change is merged into an entry of its tick on its left
          merge(v1, c1) ==
              IF Slice_lt(v1, c1) /\ v.tick = acc.change.tick /\ IsSome(Slice_union(v1, c1))
              THEN retain(Unwrap(Slice_union(v1, c1)), c1, TRUE)
              ELSE retain(v1, c1, acc.joined)
          \* the older of the two is clipped by the other
          clip(dv, dc) ==
              IF v.tick < acc.change.tick
              THEN merge(IF IsSome(dv) THEN Unwrap(dv) ELSE v.slice, acc.change.slice)
              ELSE merge(v.slice, IF IsSome(dc) THEN Unwrap(dc) ELSE acc.change.slice)
      IN clip(Slice_difference(v.slice, acc.change.slice),
              Slice_difference(acc.change.slice, v.slice))

RECURSIVE ChangeList_set_fold(_, _, _)
ChangeList_set_fold(inner, k, acc) ==
    IF k > Len(inner) THEN acc
    ELSE ChangeList_set_fold(inner, k + 1, ChangeList_set_step(acc, inner[k]))

\* ChangeList::set: the list after setting `change`
\* set without the insert after the retain: the change is kept only where it
\* was merged into an entry
ChangeList_set_retain_only(inner, change) ==
    ChangeList_set_fold(inner, 1,
        [change |-> change, joined |-> FALSE, i |-> 0,
         insert_point |-> 0, out |-> <<>>]).out

ChangeList_set(inner, change) ==
    LET insert(acc) ==
            IF ~acc.joined /\ ~Slice_is_empty(acc.change.slice)
            THEN InsertAt(acc.out, acc.insert_point, acc.change)
            ELSE acc.out
    IN insert(ChangeList_set_fold(inner, 1,
                  [change |-> change, joined |-> FALSE, i |-> 0,
                   insert_point |-> 0, out |-> <<>>]))

\* one entry of the drain in ChangeList::remove; acc holds result, right and
\* the removed changes collected so far
ChangeList_remove_step(acc, v, slice) ==
    LET \* the pending right remainders are smaller than what comes next
        flush(before) == Len(acc.right) > 0 /\ Slice_lt(acc.right[1].slice, before)
        push(fl, x) ==
            [result |-> Append(IF fl THEN acc.result \o acc.right ELSE acc.result, x),
             right |-> IF fl THEN <<>> ELSE acc.right,
             removed |-> acc.removed]
        left(l) ==
            IF Slice_is_empty(l) THEN acc
            ELSE push(flush(l), Change_new(l, v.tick, v.kind))
        right(st, r) ==
            IF Slice_is_empty(r) THEN st
            ELSE [st EXCEPT !.right = Append(@, Change_new(r, v.tick, v.kind))]
        taken(st) ==
            [st EXCEPT !.removed = Append(@, Change_new(slice, v.tick, v.kind))]
        split(sp) ==
            IF IsSome(sp)
            THEN taken(right(left(Unwrap(sp)[1]), Unwrap(sp)[3]))
            ELSE push(flush(v.slice), v)
    IN split(Slice_split_with(v.slice, slice))

RECURSIVE ChangeList_remove_fold(_, _, _, _)
ChangeList_remove_fold(inner, k, acc, slice) ==
    IF k > Len(inner) THEN acc
    ELSE ChangeList_remove_fold(inner, k + 1,
             ChangeList_remove_step(acc, inner[k], slice), slice)

\* ChangeList::remove: [inner |-> the list afterwards, removed |-> the result]
ChangeList_remove(inner, slot) ==
    LET finish(acc) == [inner |-> acc.result \o acc.right, removed |-> acc.removed]
    IN finish(ChangeList_remove_fold(inner, 1,
                  [result |-> <<>>, right |-> <<>>, removed |-> <<>>],
                  Slice_single(slot)))

\* set every change of `changes`, in order, rewritten to the single slot
RECURSIVE ChangeList_set_all(_, _, _)
ChangeList_set_all(inner, changes, slot) ==
    IF changes = <<>> THEN inner
    ELSE ChangeList_set_all(
             ChangeList_set(inner, [Head(changes) EXCEPT !.slice = Slice_single(slot)]),
             Tail(changes), slot)

\* a migration that sets the removed changes at the slot they came from
ChangeList_migrate_to_src(self, other, src_slot, dst_slot) ==
    LET set_removed(rem) ==
            [self |-> rem.inner,
             other |-> ChangeList_set_all(other, rem.removed, src_slot)]
    IN set_removed(ChangeList_remove(self, src_slot))

\* ChangeList::migrate_to: [self |-> ..., other |-> ...] afterwards
ChangeList_migrate_to(self, other, src_slot, dst_slot) ==
    LET set_removed(rem) ==
            [self |-> rem.inner,
             other |-> ChangeList_set_all(other, rem.removed, dst_slot)]
    IN set_removed(ChangeList_remove(self, src_slot))

\* a swap_out that removes both slots and sets nothing at src
ChangeList_swap_out_lost(inner, src, dst) ==
    LET remove_dst(src_changes) ==
            [inner |-> ChangeList_remove(src_changes.inner, dst).inner,
             removed |-> src_changes.removed]
    IN remove_dst(ChangeList_remove(inner, src))

\* ChangeList::swap_out: [inner |-> ..., removed |-> the changes of src]
ChangeList_swap_out(inner, src, dst) ==
    LET set_dst(src_changes, dst_changes) ==
            [inner |-> ChangeList_set_all(dst_changes.inner, dst_changes.removed, src),
             removed |-> src_changes.removed]
        remove_dst(src_changes) ==
            set_dst(src_changes, ChangeList_remove(src_changes.inner, dst))
    IN remove_dst(ChangeList_remove(inner, src))

(***************************************************************************)
(* Entity identifiers (src/entity/mod.rs).  The 64 bits of an id are kept  *)
(* as their three fields: bits 8..31 (index), 32..47 (generation) and      *)
(* 0..7 (namespace).                                                       *)
(***************************************************************************)
\* number of values of Namespace = u8
Namespace_COUNT == 256
\* mask of the index bits kept by from_parts (0xFFFFFF), plus one
Index_COUNT == 16777216
\* a generation held in 8 bits, as the namespace is
Generation_COUNT_u8 == Namespace_COUNT
\* number of values of Generation = u16
Generation_COUNT == 65536

Entity_from_parts(index, gen, namespace) ==
    [index |-> index % Index_COUNT,
     gen |-> gen % Generation_COUNT,
     namespace |-> namespace % Namespace_COUNT]
Entity_index(id) == id.index
Entity_generation(id) == id.gen % Generation_COUNT
Entity_namespace(id) == id.namespace

(***************************************************************************)
(* EntityStore: a slab of slots with generation tags and a free list.      *)
(* store = [slots |-> sequence of [gen, alive, loc], free |-> indices]     *)
(***************************************************************************)
EntityLocation(archetype, slot) == [archetype |-> archetype, slot |-> slot]
EntityLocation_default == EntityLocation(0, 0)

EntityStore_new == [slots |-> <<>>, free |-> <<>>]

EntityStore_is_alive(store, id) ==
    /\ Entity_index(id) \in 1 .. Len(store.slots)
    /\ store.slots[Entity_index(id)].alive
    /\ store.slots[Entity_index(id)].gen = Entity_generation(id)

\* Some(location) of a live id, None otherwise
EntityStore_get(store, id) ==
    IF EntityStore_is_alive(store, id)
    THEN Some(store.slots[Entity_index(id)].loc)
    ELSE None

\* get_mut(id).unwrap() = loc
EntityStore_set(store, id, loc) ==
    [store EXCEPT !.slots[Entity_index(id)].loc = loc]

\* spawn: reuse the index on top of the free list with the generation its
\* despawn left, or take a fresh index at generation 0
EntityStore_spawn(store, loc) ==
    IF store.free /= <<>>
    THEN LET index == Head(store.free)
         IN [store |-> [slots |-> [store.slots EXCEPT ![index].alive = TRUE,
                                                      ![index].loc = loc],
                        free |-> Tail(store.free)],
             id |-> Entity_from_parts(index, store.slots[index].gen, 0)]
    ELSE LET index == Len(store.slots) + 1
         IN [store |-> [slots |-> Append(store.slots,
                                     [gen |-> 0, alive |-> TRUE, loc |-> loc]),
                        free |-> store.free],
             id |-> Entity_from_parts(index, 0, 0)]

\* despawn: nothing for an id that is not alive; else bump the generation
\* (in its 16 bits) and put the index on the free list
EntityStore_despawn(store, id) ==
    IF ~EntityStore_is_alive(store, id) THEN store
    ELSE [slots |-> [store.slots EXCEPT
                        ![Entity_index(id)].alive = FALSE,
                        ![Entity_index(id)].gen = (@ + 1) % Generation_COUNT],
          free |-> <<Entity_index(id)>> \o store.free]

(***************************************************************************)
(* World::despawn and World::is_alive (src/world.rs) hand the id to the    *)
(* entity store and do nothing else.                                       *)
(***************************************************************************)
World_despawn_entities(entities_, id) == EntityStore_despawn(entities_, id)

\* is_alive answering for the index alone, whatever the generation
World_is_alive_index(entities_, id) ==
    /\ Entity_index(id) \in 1 .. Len(entities_.slots)
    /\ entities_.slots[Entity_index(id)].alive

World_is_alive_in(entities_, id) == EntityStore_is_alive(entities_, id)

(***************************************************************************)
(* Archetype: the entities sharing one component list, a column (Cell)     *)
(* per component and the column of entity ids.                             *)
(* arch = [components, entities, cells, add, remove]; a cell is            *)
(* [storage, inserted, modified, removed]; slots and archetype ids count   *)
(* from 0 as in the code, sequences from 1.                                *)
(***************************************************************************)
RangeOf(seq) == {seq[k] : k \in DOMAIN seq}
NoEdges == [c \in {} |-> 0]

Cell_new == [storage |-> <<>>, inserted |-> <<>>, modified |-> <<>>, removed |-> <<>>]

Archetype_new(components) ==
    [components |-> components,
     entities |-> <<>>,
     cells |-> [c \in RangeOf(components) |-> Cell_new],
     add |-> NoEdges,
     remove |-> NoEdges]

Archetype_empty == Archetype_new(<<>>)

Archetype_len(arch) == Len(arch.entities)
Archetype_has(arch, component) == component \in RangeOf(arch.components)

\* entity(slot): Some(id) or None
Archetype_entity(arch, slot) ==
    IF slot < Len(arch.entities) THEN Some(arch.entities[slot + 1]) ELSE None

\* get(slot, component): Some(value) or None
Archetype_get(arch, slot, component) ==
    IF component \in DOMAIN arch.cells /\ slot < Len(arch.cells[component].storage)
    THEN Some(arch.cells[component].storage[slot + 1])
    ELSE None

\* edge_to(component): the archetype reached by adding the component
Archetype_edge_to(arch, component) ==
    IF component \in DOMAIN arch.add THEN Some(arch.add[component]) ELSE None

\* allocate(id): push the id on the entity column; the slot is the old length
Archetype_allocate(arch, id) ==
    [arch |-> [arch EXCEPT !.entities = Append(@, id)], slot |-> Len(arch.entities)]

\* put_dyn(slot, component, value): write the value at the slot of the column;
\* None when the archetype has no such column
Archetype_put_dyn(arch, slot, component, value) ==
    IF component \notin DOMAIN arch.cells THEN None
    ELSE LET st == arch.cells[component].storage
         IN Some([arch EXCEPT !.cells[component].storage =
                     IF slot < Len(st) THEN [st EXCEPT ![slot + 1] = value]
                     ELSE Append(st, value)])

\* swap_remove of a sequence: the last element takes the place of the removed
SwapRemove(seq, slot) ==
    LET n == Len(seq)
    IN IF slot + 1 = n THEN SubSeq(seq, 1, n - 1)
       ELSE SubSeq([seq EXCEPT ![slot + 1] = seq[n]], 1, n - 1)

\* a column of src after the entity at slot left it; last is the last slot
Cell_take(cell, slot, last) ==
    [storage |-> SwapRemove(cell.storage, slot),
     inserted |-> ChangeList_swap_out(cell.inserted, slot, last).inner,
     modified |-> ChangeList_swap_out(cell.modified, slot, last).inner,
     removed |-> ChangeList_swap_out(cell.removed, slot, last).inner]

\* a column of dst after it received the value and the changes of the slot
Cell_receive(dcell, scell, slot, dst_slot) ==
    [storage |-> Append(dcell.storage, scell.storage[slot + 1]),
     inserted |-> ChangeList_migrate_to(scell.inserted, dcell.inserted, slot, dst_slot).other,
     modified |-> ChangeList_migrate_to(scell.modified, dcell.modified, slot, dst_slot).other,
     removed |-> ChangeList_migrate_to(scell.removed, dcell.removed, slot, dst_slot).other]

\* move_to(dst, slot): the entity at slot leaves src for the tail of dst; the
\* columns both have are moved, those only src has are dropped, those only
\* dst has are left to the caller.  swapped is the entity that slid into slot.
Archetype_move_to(src, dst, slot) ==
    LET last == Len(src.entities) - 1
        id == src.entities[slot + 1]
        dst_slot == Len(dst.entities)
        common == DOMAIN src.cells \cap DOMAIN dst.cells
    IN [src |-> [src EXCEPT
                    !.entities = SwapRemove(@, slot),
                    !.cells = [c \in DOMAIN src.cells |-> Cell_take(src.cells[c], slot, last)]],
        dst |-> [dst EXCEPT
                    !.entities = Append(@, id),
                    !.cells = [c \in DOMAIN dst.cells |->
                                  IF c \in common
                                  THEN Cell_receive(dst.cells[c], src.cells[c], slot, dst_slot)
                                  ELSE dst.cells[c]]],
        dst_slot |-> dst_slot,
        swapped |-> IF slot /= last THEN Some(src.entities[last + 1]) ELSE None,
        dropped |-> Cardinality(DOMAIN src.cells \ common)]

(***************************************************************************)
(* World (src/world.rs).  w = [entities, archetypes]                       *)
(***************************************************************************)
World_new == [entities |-> EntityStore_new, archetypes |-> <<Archetype_empty>>]

World_archetype(archs, id) == archs[id + 1]

\* fetch_archetype: follow the edges of `all` from the cursor on, creating
\* the archetypes that are missing; [archetypes, id]
RECURSIVE World_fetch_archetype_from(_, _, _, _)
World_fetch_archetype_from(archs, cursor, all, i) ==
    IF i > Len(all) THEN [archetypes |-> archs, id |-> cursor]
    ELSE LET head == all[i]
             cur == World_archetype(archs, cursor)
             next == Archetype_edge_to(cur, head)
         IN IF IsSome(next)
            THEN World_fetch_archetype_from(archs, Unwrap(next), all, i + 1)
            ELSE LET id == Len(archs)
                     new == [Archetype_new(SubSeq(all, 1, i)) EXCEPT
                                !.remove = (head :> cursor)]
                     linked == [archs EXCEPT ![cursor + 1].add = (head :> id) @@ @]
                 IN World_fetch_archetype_from(Append(linked, new), id, all, i + 1)

World_fetch_archetype(archs, root, components) ==
    World_fetch_archetype_from(archs, root, components, 1)

\* spawn: a new id placed at the root; [world, id]
World_spawn(w) ==
    LET allocated(sp, al) ==
            [world |-> [entities |-> EntityStore_set(sp.store, sp.id,
                                                     EntityLocation(0, al.slot)),
                        archetypes |-> [w.archetypes EXCEPT ![1] = al.arch]],
             id |-> sp.id]
        spawned_(sp) ==
            allocated(sp, Archetype_allocate(World_archetype(w.archetypes, 0), sp.id))
    IN spawned_(EntityStore_spawn(w.entities, EntityLocation_default))

\* number of leading components with an id below the new component's
World_insert_pivot(components, component) ==
    Cardinality({k \in DOMAIN components :
                    \A j \in 1 .. k : components[j] < component})

\* the component list of the destination of insert
World_insert_components(components, component) ==
    LET pivot == World_insert_pivot(components, component)
    IN SubSeq(components, 1, pivot) \o <<component>>
           \o SubSeq(components, pivot + 1, Len(components))

\* the swapped entity keeps the slot it had
World_insert_relocate_id_only(entities_, id, swapped, slot, dst_id, dst_slot) ==
    [entities |-> EntityStore_set(entities_, id, EntityLocation(dst_id, dst_slot)),
     panicked |-> FALSE]

\* the entity store after insert moved id to (dst_id, dst_slot) and the
\* swapped entity, if any, into the slot id left; get_mut(swapped) is None
\* for an id that is not alive and the expect then panics, the store as it was
World_insert_relocate(entities_, id, swapped, slot, dst_id, dst_slot) ==
    IF IsSome(swapped) /\ EntityStore_get(entities_, Unwrap(swapped)) = None
    THEN [entities |-> entities_, panicked |-> TRUE]
    ELSE LET e1 == IF IsSome(swapped)
                   THEN [entities_ EXCEPT
                            !.slots[Entity_index(Unwrap(swapped))].loc.slot = slot]
                   ELSE entities_
         IN [entities |-> EntityStore_set(e1, id, EntityLocation(dst_id, dst_slot)),
             panicked |-> FALSE]

\* the missing component is never written to the destination
World_insert_put_skipped(dst, dst_slot, component, value) == Some(dst)

\* dst.put_dyn(dst_slot, &component_info, value)
World_insert_put(dst, dst_slot, component, value) ==
    Archetype_put_dyn(dst, dst_slot, component, value)

\* insert(id, component, value): [entities, archetypes, panicked]; the
\* unwrap of get(id) panics before anything is changed, the expect on the
\* swapped entity after the archetypes were changed
World_insert(w, id, component, value) ==
    LET done(loc, fa, mv, put, rl) ==
            IF loc.archetype = fa.id
            THEN \* assert_ne!(src_id, dst_id)
                 [entities |-> w.entities, archetypes |-> fa.archetypes,
                  panicked |-> TRUE]
            ELSE IF put = None
            THEN \* expect("Insert should not fail")
                 [entities |-> w.entities,
                  archetypes |-> [fa.archetypes EXCEPT ![loc.archetype + 1] = mv.src,
                                                       ![fa.id + 1] = mv.dst],
                  panicked |-> TRUE]
            ELSE [entities |-> rl.entities,
                  archetypes |-> [fa.archetypes EXCEPT ![loc.archetype + 1] = mv.src,
                                                       ![fa.id + 1] = Unwrap(put)],
                  panicked |-> rl.panicked]
        moved(loc, fa, mv) ==
            done(loc, fa, mv,
                 World_insert_put(mv.dst, mv.dst_slot, component, value),
                 World_insert_relocate(w.entities, id, mv.swapped, loc.slot,
                                       fa.id, mv.dst_slot))
        fetched(loc, fa) ==
            moved(loc, fa,
                  Archetype_move_to(World_archetype(fa.archetypes, loc.archetype),
                                    World_archetype(fa.archetypes, fa.id), loc.slot))
        located(loc) ==
            fetched(loc,
                    World_fetch_archetype(w.archetypes, 0,
                        World_insert_components(
                            World_archetype(w.archetypes, loc.archetype).components,
                            component)))
    IN IF EntityStore_get(w.entities, id) = None
       THEN \* self.entities.get(id).unwrap()
            [entities |-> w.entities, archetypes |-> w.archetypes, panicked |-> TRUE]
       ELSE located(Unwrap(EntityStore_get(w.entities, id)))

\* get(id, component): Some(value) or None
World_get(w, id, component) ==
    LET loc == EntityStore_get(w.entities, id)
    IN IF IsSome(loc)
       THEN Archetype_get(World_archetype(w.archetypes, Unwrap(loc).archetype),
                          Unwrap(loc).slot, component)
       ELSE None

World_has(w, id, component) ==
    LET loc == EntityStore_get(w.entities, id)
    IN IF IsSome(loc)
       THEN Archetype_has(World_archetype(w.archetypes, Unwrap(loc).archetype), component)
       ELSE FALSE

\* despawn(id): the entity store forgets the id; nothing else changes
World_despawn(w, id) == [w EXCEPT !.entities = World_despawn_entities(w.entities, id)]

World_is_alive(w, id) == World_is_alive_in(w.entities, id)

(***************************************************************************)
(* World operations the sources call but world.rs does not hold: remove    *)
(* and spawn_with, and the change tick they advance.                       *)
(***************************************************************************)
\* the component list without (the first occurrence of) the component
World_remove_components(components, component) ==
    LET k == CHOOSE j \in DOMAIN components :
                 /\ components[j] = component
                 /\ \A h \in 1 .. j - 1 : components[h] /= component
    IN SubSeq(components, 1, k - 1) \o SubSeq(components, k + 1, Len(components))

\* the answer for a missing component, with the change tick advanced
World_remove_missing_ticked(w, tick) ==
    [world |-> w, tick |-> tick + 1, result |-> "MissingComponent", dropped |-> 0,
     panicked |-> FALSE]

\* the answer of remove for a component the entity does not have
World_remove_missing(w, tick) ==
    [world |-> w, tick |-> tick, result |-> "MissingComponent", dropped |-> 0,
     panicked |-> FALSE]

\* remove(id, component): [world, tick, result, dropped, panicked]
World_remove(w, tick, id, component) ==
    LET done(loc, fa, mv, rl) ==
            [world |-> [entities |-> rl.entities,
                        archetypes |-> [fa.archetypes EXCEPT
                            ![loc.archetype + 1] =
                                [mv.src EXCEPT !.cells[component].removed =
                                    ChangeList_set(@, Change_removed(Slice_single(loc.slot),
                                                                     tick + 1))],
                            ![fa.id + 1] = mv.dst]],
             tick |-> tick + 1,
             result |-> IF rl.panicked THEN "Panic" ELSE "Ok",
             dropped |-> mv.dropped,
             panicked |-> rl.panicked]
        moved(loc, fa, mv) ==
            done(loc, fa, mv,
                 World_insert_relocate(w.entities, id, mv.swapped, loc.slot,
                                       fa.id, mv.dst_slot))
        fetched(loc, fa) ==
            moved(loc, fa,
                  Archetype_move_to(World_archetype(fa.archetypes, loc.archetype),
                                    World_archetype(fa.archetypes, fa.id), loc.slot))
        located(loc) ==
            fetched(loc,
                    World_fetch_archetype(w.archetypes, 0,
                        World_remove_components(
                            World_archetype(w.archetypes, loc.archetype).components,
                            component)))
    IN IF ~World_is_alive(w, id)
       THEN [world |-> w, tick |-> tick, result |-> "NotAlive", dropped |-> 0,
             panicked |-> FALSE]
       ELSE IF ~World_has(w, id, component)
       THEN World_remove_missing(w, tick)
       ELSE located(Unwrap(EntityStore_get(w.entities, id)))

\* the components of a buffer (a function from components to values), sorted
RECURSIVE SortedSeq(_)
SortedSeq(set) ==
    IF set = {} THEN <<>>
    ELSE LET m == CHOOSE x \in set : \A y \in set : x <= y
         IN <<m>> \o SortedSeq(set \ {m})

\* spawn_with(buffer): a new id placed in the archetype of the buffer's
\* components with the buffer's values; [world, tick, id]
World_spawn_with(w, tick, buffer) ==
    LET filled(al) ==
            [al.arch EXCEPT !.cells = [c \in DOMAIN al.arch.cells |->
                [al.arch.cells[c] EXCEPT
                    !.storage = Append(@, buffer[c]),
                    !.inserted = ChangeList_set(@,
                         Change_inserted(Slice_single(al.slot), tick + 1))]]]
        allocated(sp, fa, al) ==
            [world |-> [entities |-> EntityStore_set(sp.store, sp.id,
                                                     EntityLocation(fa.id, al.slot)),
                        archetypes |-> [fa.archetypes EXCEPT ![fa.id + 1] = filled(al)]],
             tick |-> tick + 1,
             id |-> sp.id]
        fetched(sp, fa) ==
            allocated(sp, fa,
                      Archetype_allocate(World_archetype(fa.archetypes, fa.id), sp.id))
        spawned_(sp) ==
            fetched(sp, World_fetch_archetype(w.archetypes, 0, SortedSeq(DOMAIN buffer)))
    IN spawned_(EntityStore_spawn(w.entities, EntityLocation_default))

(***************************************************************************)
(* World::prune_archetypes.  An archetype other than the root is pruned    *)
(* when it is empty and every archetype reachable through its add edges is *)
(* empty too.  Its slot stays behind without components, so the ids of the *)
(* other archetypes are kept; the edges leading to it are dropped.         *)
(***************************************************************************)
Archetype_pruned == Archetype_empty @@ [pruned |-> TRUE]

Archetype_is_pruned(arch) == "pruned" \in DOMAIN arch

RECURSIVE World_prunable(_, _)
World_prunable(archs, id) ==
    /\ id /= 0
    /\ Archetype_len(World_archetype(archs, id)) = 0
    /\ \A c \in DOMAIN World_archetype(archs, id).add :
           World_prunable(archs, World_archetype(archs, id).add[c])

World_prune_gone(archs, gone) ==
    [archetypes |->
        [k \in DOMAIN archs |->
            IF k - 1 \in gone THEN Archetype_pruned
            ELSE [archs[k] EXCEPT !.add =
                     [c \in {d \in DOMAIN archs[k].add : archs[k].add[d] \notin gone}
                         |-> archs[k].add[c]]]],
     count |-> Cardinality(gone)]

\* a pruning that does not look whether the archetype is empty
World_prune_archetypes_nonempty(archs) ==
    World_prune_gone(archs, {id \in 1 .. Len(archs) - 1 :
        /\ ~Archetype_is_pruned(World_archetype(archs, id))
        /\ DOMAIN World_archetype(archs, id).add = {}})

World_prune_archetypes(archs) ==
    World_prune_gone(archs, {id \in 0 .. Len(archs) - 1 :
        /\ ~Archetype_is_pruned(World_archetype(archs, id))
        /\ World_prunable(archs, id)})

(***************************************************************************)
(* Fetches and filters.  A fetch with its filter is the record             *)
(* [read, mutable, with, without, modified, gt]: the components fetched    *)
(* shared and mutably (Mutable), the static filters with and without, the  *)
(* components of a modified() filter and the thresholds of the gt()        *)
(* comparisons, a function from components to values.                      *)
(***************************************************************************)
Fetch_new(read, mutable, with, without, modified, gt) ==
    [read |-> read, mutable |-> mutable, with |-> with, without |-> without,
     modified |-> modified, gt |-> gt]

\* the components the searcher of the fetch requires
Fetch_required(fetch) ==
    fetch.read \cup fetch.mutable \cup fetch.with \cup fetch.modified \cup DOMAIN fetch.gt

\* filter_arch: the archetype has what the fetch requires and nothing it excludes
Fetch_filter_arch(fetch, arch) ==
    /\ \A c \in Fetch_required(fetch) : Archetype_has(arch, c)
    /\ \A c \in fetch.without : ~Archetype_has(arch, c)

\* prepare: None when the archetype lacks a column the fetch borrows
Fetch_prepare(fetch, arch) ==
    \A c \in fetch.read \cup fetch.mutable \cup fetch.modified \cup DOMAIN fetch.gt :
        c \in DOMAIN arch.cells

\* find_missing_components: the required components the archetype lacks
Fetch_missing(fetch, arch) ==
    {c \in Fetch_required(fetch) : ~Archetype_has(arch, c)}

\* a change list holds a change of the slot newer than old_tick
ChangeList_changed(inner, slot, old_tick) ==
    \E i \in DOMAIN inner :
        Slice_contains(inner[i].slice, slot) /\ inner[i].tick > old_tick

\* the slot filter: every modified() component was inserted or modified at
\* the slot after old_tick, every gt() component holds a value above its
\* threshold there
Filter_slot(fetch, arch, slot, old_tick) ==
    /\ \A c \in fetch.modified :
          \/ ChangeList_changed(arch.cells[c].modified, slot, old_tick)
          \/ ChangeList_changed(arch.cells[c].inserted, slot, old_tick)
    /\ \A c \in DOMAIN fetch.gt :
          /\ slot < Len(arch.cells[c].storage)
          /\ arch.cells[c].storage[slot + 1] > fetch.gt[c]

\* filter_slots: the first continuous run of matched slots inside the slice,
\* the empty slice at its end when there is none
Filter_filter_slots(fetch, arch, slice, old_tick) ==
    LET matched == {s \in slice.start .. slice.end - 1 :
                       Filter_slot(fetch, arch, s, old_tick)}
    IN IF matched = {} THEN Slice_new(slice.end, slice.end)
       ELSE LET first == CHOOSE s \in matched : \A t \in matched : s <= t
                stop == CHOOSE e \in first + 1 .. slice.end :
                            /\ \A s \in first .. e - 1 : s \in matched
                            /\ e = slice.end \/ e \notin matched
            IN Slice_new(first, stop)

\* FilterIter: the chunks of the slots from pos on, by filter_slots repeated
\* until the slice is exhausted
RECURSIVE FilterIter_chunks(_, _, _, _)
FilterIter_chunks(fetch, arch, pos, old_tick) ==
    LET next(chunk) ==
            IF Slice_is_empty(chunk) THEN <<>>
            ELSE <<chunk>> \o FilterIter_chunks(fetch, arch, chunk.end, old_tick)
    IN next(Filter_filter_slots(fetch, arch,
                                Slice_new(pos, Archetype_len(arch)), old_tick))

\* set_visited of the prepared fetch: a Modified change of the chunk at the
\* tick of the borrow in the column of every component fetched mutably
Fetch_set_visited(fetch, arch, chunk, new_tick) ==
    [arch EXCEPT !.cells = [c \in DOMAIN arch.cells |->
        IF c \in fetch.mutable
        THEN [arch.cells[c] EXCEPT
                 !.modified = ChangeList_set(@, Change_modified(chunk, new_tick))]
        ELSE arch.cells[c]]]

\* the chunk is handed out although none of its slots is marked as visited
ArchetypeChunks_next_unvisited(fetch, arch, chunk, new_tick) == arch

\* ArchetypeChunks::next for one chunk of the filter: the chunk is set as
\* visited before it is handed out as a Batch
ArchetypeChunks_next(fetch, arch, chunk, new_tick) ==
    Fetch_set_visited(fetch, arch, chunk, new_tick)

\* the archetype after all its chunks were handed out
RECURSIVE ArchetypeChunks_all(_, _, _, _)
ArchetypeChunks_all(fetch, arch, chunks, new_tick) ==
    IF chunks = <<>> THEN arch
    ELSE ArchetypeChunks_all(fetch,
             ArchetypeChunks_next(fetch, arch, Head(chunks), new_tick),
             Tail(chunks), new_tick)

\* Batch: the entities of the chunks, slot by slot
RECURSIVE Batch_entities(_, _)
Batch_entities(arch, chunks) ==
    IF chunks = <<>> THEN <<>>
    ELSE SubSeq(arch.entities, Head(chunks).start + 1, Head(chunks).end)
             \o Batch_entities(arch, Tail(chunks))

(***************************************************************************)
(* Query (src/query/mod.rs) and the planar strategy (src/query/planar.rs). *)
(***************************************************************************)
\* the ids of a list of archetypes, in the order of the list
ArchetypeIds(archs) == [k \in 1 .. Len(archs) |-> k - 1]

\* update_state: the archetypes of the world the fetch matches
Planar_update_state(archs, fetch) ==
    LET matches(id) == Fetch_filter_arch(fetch, World_archetype(archs, id))
    IN SelectSeq(ArchetypeIds(archs), matches)

\* Planar::borrow: the list of the strategy, computed again when dirty
Planar_borrow(self_archetypes, archs, fetch, dirty) ==
    IF dirty THEN Planar_update_state(archs, fetch) ELSE self_archetypes

\* Query::get_archetypes: the cached list, computed only when there is none
Query_get_archetypes(cached, archs, fetch) ==
    IF cached = None
    THEN Some(Planar_borrow(<<>>, archs, fetch, TRUE))
    ELSE cached

\* a QueryBorrow: [fetch, archetypes, prepared, old_tick, new_tick]
QueryBorrow_new(fetch, archetypes_, old_tick, new_tick) ==
    [fetch |-> fetch, archetypes |-> archetypes_, prepared |-> <<>>,
     old_tick |-> old_tick, new_tick |-> new_tick]

\* iter_batched: the prepared archetypes are those already prepared when
\* there are as many of them as archetypes in the list, else the non-empty
\* archetypes of the list, in its order
QueryBorrow_prepared(b, archs) ==
    LET ready(id) ==
            /\ Archetype_len(World_archetype(archs, id)) > 0
            /\ Fetch_prepare(b.fetch, World_archetype(archs, id))
    IN IF Len(b.prepared) /= Len(b.archetypes)
       THEN SelectSeq(b.archetypes, ready)
       ELSE b.prepared

\* BatchedIter run to its end over the prepared archetypes from the k-th on:
\* [archetypes |-> the archetypes afterwards, chunks |-> the chunks handed
\* out, each with its archetype, yielded |-> the entities of the chunks]
RECURSIVE BatchedIter_run(_, _, _, _)
BatchedIter_run(b, archs, prepared, k) ==
    IF k > Len(prepared) THEN [archetypes |-> archs, chunks |-> <<>>, yielded |-> <<>>]
    ELSE LET rest(chunks, r) ==
                 [archetypes |-> r.archetypes,
                  chunks |-> [j \in DOMAIN chunks |->
                                 [arch |-> prepared[k], slice |-> chunks[j]]]
                                 \o r.chunks,
                  yielded |-> Batch_entities(World_archetype(archs, prepared[k]), chunks)
                                  \o r.yielded]
             visit(chunks) ==
                 rest(chunks,
                      BatchedIter_run(b,
                          [archs EXCEPT ![prepared[k] + 1] =
                              ArchetypeChunks_all(b.fetch, @, chunks, b.new_tick)],
                          prepared, k + 1))
         IN visit(FilterIter_chunks(b.fetch, World_archetype(archs, prepared[k]),
                                    0, b.old_tick))

\* QueryBorrow::iter run to its end: [borrow, archetypes, chunks, yielded]
QueryBorrow_iter(b, archs) ==
    LET run(prepared, r) ==
            [borrow |-> [b EXCEPT !.prepared = prepared],
             archetypes |-> r.archetypes,
             chunks |-> r.chunks,
             yielded |-> r.yielded]
        prepare(prepared) == run(prepared, BatchedIter_run(b, archs, prepared, 1))
    IN prepare(QueryBorrow_prepared(b, archs))

\* the position of an archetype among the prepared ones, 0 when it is not
QueryBorrow_position(prepared, arch_id) ==
    IF \E k \in DOMAIN prepared : prepared[k] = arch_id
    THEN CHOOSE k \in DOMAIN prepared :
             /\ prepared[k] = arch_id
             /\ \A j \in 1 .. k - 1 : prepared[j] /= arch_id
    ELSE 0

\* prepare_archetype: [prepared, idx]; idx is None when the archetype is
\* rejected by filter_arch or cannot be prepared
QueryBorrow_prepare_archetype(b, archs, arch_id) ==
    IF QueryBorrow_position(b.prepared, arch_id) > 0
    THEN [prepared |-> b.prepared,
          idx |-> Some(QueryBorrow_position(b.prepared, arch_id))]
    ELSE IF ~Fetch_filter_arch(b.fetch, World_archetype(archs, arch_id))
    THEN [prepared |-> b.prepared, idx |-> None]
    ELSE IF ~Fetch_prepare(b.fetch, World_archetype(archs, arch_id))
    THEN [prepared |-> b.prepared, idx |-> None]
    ELSE [prepared |-> Append(b.prepared, arch_id),
          idx |-> Some(Len(b.prepared) + 1)]

\* QueryBorrow::get(id): [borrow, archetypes, result]; the result is an
\* error or "Ok", and the item of an "Ok" is the entity at the slot
QueryBorrow_get(b, w, id) ==
    LET fetched(loc, p, chunk) ==
            IF Slice_is_empty(chunk)
            THEN [borrow |-> [b EXCEPT !.prepared = p.prepared],
                  archetypes |-> w.archetypes, result |-> "Filtered"]
            ELSE [borrow |-> [b EXCEPT !.prepared = p.prepared],
                  archetypes |-> [w.archetypes EXCEPT ![loc.archetype + 1] =
                                     ArchetypeChunks_next(b.fetch, @, chunk, b.new_tick)],
                  result |-> "Ok"]
        prepared_(loc, p) ==
            IF p.idx = None
            THEN [borrow |-> b, archetypes |-> w.archetypes,
                  result |-> IF Fetch_missing(b.fetch,
                                    World_archetype(w.archetypes, loc.archetype)) /= {}
                             THEN "MissingComponent" ELSE "DoesNotMatch"]
            ELSE fetched(loc, p,
                         Filter_filter_slots(b.fetch,
                             World_archetype(w.archetypes, loc.archetype),
                             Slice_single(loc.slot), b.old_tick))
        located(loc) ==
            prepared_(loc, QueryBorrow_prepare_archetype(b, w.archetypes, loc.archetype))
    IN IF EntityStore_get(w.entities, id) = None
       THEN [borrow |-> b, archetypes |-> w.archetypes, result |-> "NotAlive"]
       ELSE located(Unwrap(EntityStore_get(w.entities, id)))

\* World::get_mut(id, component) followed by a write of value through the
\* reference: [archetypes, result]; None for an id that is not alive or an
\* archetype without the component
World_get_mut(w, id, component, value) ==
    LET loc == EntityStore_get(w.entities, id)
    IN IF IsSome(loc)
          /\ IsSome(Archetype_get(World_archetype(w.archetypes, Unwrap(loc).archetype),
                                  Unwrap(loc).slot, component))
       THEN [archetypes |-> [w.archetypes EXCEPT
                ![Unwrap(loc).archetype + 1].cells[component].storage[Unwrap(loc).slot + 1]
                    = value],
             result |-> Some(value)]
       ELSE [archetypes |-> w.archetypes, result |-> None]

(***************************************************************************)
(* Accesses and the Schedule.  An access is [kind, arch, component,        *)
(* mutable]; arch and component are 0 for the kinds World and              *)
(* CommandBuffer, which are one resource each.                             *)
(***************************************************************************)
Access_new(kind, arch, component, mutable) ==
    [kind |-> kind, arch |-> arch, component |-> component, mutable |-> mutable]

\* two accesses conflict iff both are mutable
Access_conflicts_both_mutable(a, b) ==
    /\ a.kind = b.kind
    /\ a.arch = b.arch
    /\ a.component = b.component
    /\ a.mutable /\ b.mutable

\* two accesses conflict iff they are of the same resource and one is mutable
Access_conflicts(a, b) ==
    /\ a.kind = b.kind
    /\ a.arch = b.arch
    /\ a.component = b.component
    /\ a.mutable \/ b.mutable

\* Mutable::access: the column and its change events, both mutably, when the
\* archetype has the component
Mutable_access(component, arch_id, arch) ==
    IF Archetype_has(arch, component)
    THEN {Access_new("Archetype", arch_id, component, TRUE),
          Access_new("ChangeEvent", arch_id, component, TRUE)}
    ELSE {}

\* the access of a component fetched shared or compared: its column
Component_access(component, arch_id, arch) ==
    IF Archetype_has(arch, component)
    THEN {Access_new("Archetype", arch_id, component, FALSE)}
    ELSE {}

\* the access of a modified() filter: the change events of the component
ChangeFilter_access(component, arch_id, arch) ==
    IF Archetype_has(arch, component)
    THEN {Access_new("ChangeEvent", arch_id, component, FALSE)}
    ELSE {}

\* the accesses of a fetch with its filter in one archetype
Fetch_access(fetch, arch_id, arch) ==
    UNION ({Mutable_access(c, arch_id, arch) : c \in fetch.mutable}
           \cup {Component_access(c, arch_id, arch) : c \in fetch.read \cup DOMAIN fetch.gt}
           \cup {ChangeFilter_access(c, arch_id, arch) : c \in fetch.modified})

\* Planar::access: the accesses of the fetch in every archetype of the world
\* it matches now, and the World, shared
Planar_access(archs, fetch) ==
    UNION {Fetch_access(fetch, id, World_archetype(archs, id)) :
              id \in RangeOf(Planar_update_state(archs, fetch))}
        \cup {Access_new("World", 0, 0, FALSE)}

\* Write<World> and Write<CommandBuffer>
WriteWorld_access == {Access_new("World", 0, 0, TRUE)}
WriteCommandBuffer_access == {Access_new("CommandBuffer", 0, 0, TRUE)}

\* the systems of the schedule, in declared order; a system holds a query
\* (a fetch), the World or the CommandBuffer
Systems == <<"names", "blue", "commands", "red", "stats", "cleanup", "spawner">>

SystemFetch ==
    [s \in {"names", "blue", "red", "stats"} |->
        CASE s = "names" -> Fetch_new({2}, {}, {}, {}, {}, <<>>)
          [] s = "blue" -> Fetch_new({}, {1}, {2}, {}, {}, <<>>)
          [] s = "red" -> Fetch_new({}, {1}, {}, {}, {}, <<>>)
          [] s = "stats" -> Fetch_new({1}, {}, {}, {}, {}, <<>>)]

\* the accesses of a system in the world as it is now
System_access(s, archs) ==
    IF s \in DOMAIN SystemFetch THEN Planar_access(archs, SystemFetch[s])
    ELSE IF s = "spawner" THEN WriteWorld_access
    ELSE WriteCommandBuffer_access

System_conflicts(s, t, archs) ==
    \E a \in System_access(s, archs), b \in System_access(t, archs) :
        Access_conflicts(a, b)

\* every system fits every batch
Schedule_fits_always(batch, s, archs) == TRUE

\* the system conflicts with no system of the batch
Schedule_fits(batch, s, archs) ==
    \A k \in DOMAIN batch : ~System_conflicts(batch[k], s, archs)

\* the system joins the newest batch when it fits it, else opens a new batch
Schedule_place_newest(batches_, s, archs) ==
    IF batches_ /= <<>> /\ Schedule_fits(batches_[Len(batches_)], s, archs)
    THEN [batches_ EXCEPT ![Len(batches_)] = Append(@, s)]
    ELSE Append(batches_, <<s>>)

\* the system joins the first batch it fits, else opens a new batch
Schedule_place(batches_, s, archs) ==
    IF \E k \in DOMAIN batches_ : Schedule_fits(batches_[k], s, archs)
    THEN LET k == CHOOSE j \in DOMAIN batches_ :
                      /\ Schedule_fits(batches_[j], s, archs)
                      /\ \A h \in 1 .. j - 1 : ~Schedule_fits(batches_[h], s, archs)
         IN [batches_ EXCEPT ![k] = Append(@, s)]
    ELSE Append(batches_, <<s>>)

RECURSIVE Schedule_batch_from(_, _, _)
Schedule_batch_from(batches_, k, archs) ==
    IF k > Len(Systems) THEN batches_
    ELSE Schedule_batch_from(Schedule_place(batches_, Systems[k], archs), k + 1, archs)

\* batch_info: the batches of the systems for the world as it is now
Schedule_batch_info(archs) == Schedule_batch_from(<<>>, 1, archs)

(***************************************************************************)
(* The execution of a Schedule.  The systems are batched for the world as  *)
(* it is when the execution starts; a flush marker after the p-th declared *)
(* system closes the batches opened before it.  The systems of a batch run *)
(* in any order; the commands they record are queued in the command buffer *)
(* and applied to the world when the batch has ended without an error.  A  *)
(* system returning an error aborts the batch: the queued commands are     *)
(* discarded, no later batch runs and the first error is the result.       *)
(***************************************************************************)
RECURSIVE Schedule_batch_range(_, _, _, _)
Schedule_batch_range(batches_, k, hi, archs) ==
    IF k > hi THEN batches_
    ELSE Schedule_batch_range(Schedule_place(batches_, Systems[k], archs), k + 1, hi, archs)

\* the batches of a schedule with a flush marker after the p-th system
\* (p = 0: no marker)
Schedule_batches(archs, p) ==
    Schedule_batch_range(<<>>, 1, p, archs)
        \o Schedule_batch_range(<<>>, p + 1, Len(Systems), archs)

\* CommandBuffer::set and CommandBuffer::despawn
Command_set(id, component, value) ==
    [op |-> "set", id |-> id, component |-> component, value |-> value]
Command_despawn(id) == [op |-> "despawn", id |-> id]

\* one command applied to the world; a command for an entity that is no
\* longer alive is skipped
Command_apply(w, cmd) ==
    IF ~World_is_alive(w, cmd.id) THEN w
    ELSE IF cmd.op = "set"
    THEN LET done(r) == [entities |-> r.entities, archetypes |-> r.archetypes]
         IN done(World_insert(w, cmd.id, cmd.component, cmd.value))
    ELSE World_despawn(w, cmd.id)

\* CommandBuffer::apply: the queued commands in the order they were recorded
RECURSIVE CommandBuffer_apply(_, _)
CommandBuffer_apply(w, cmds) ==
    IF cmds = <<>> THEN w
    ELSE CommandBuffer_apply(Command_apply(w, Head(cmds)), Tail(cmds))

\* the entities the query of a system yields in the world
System_sees(s, w) ==
    IF s \in DOMAIN SystemFetch
    THEN UNION {RangeOf(World_archetype(w.archetypes, id).entities) :
                   id \in RangeOf(Planar_update_state(w.archetypes, SystemFetch[s]))}
    ELSE {}

Exec_idle == [phase |-> "idle"]

Exec_batch(ex, k, w) ==
    [ex EXCEPT !.k = k, !.pending = RangeOf(ex.batches[k]), !.start = w]

\* Schedule::execute: the batches for the world as it is, the first batch next
Schedule_execute(w, p) ==
    LET start(bs) ==
            [phase |-> "running", marker |-> p, batches |-> bs, k |-> 1,
             pending |-> RangeOf(bs[1]), start |-> w, cmds |-> <<>>,
             failed |-> FALSE, errors |-> <<>>, result |-> [tag |-> "none"],
             ran |-> <<>>, flushed |-> <<>>, discarded |-> <<>>]
    IN start(Schedule_batches(w.archetypes, p))

\* a system of the running batch runs: its query sees the world, its
\* commands are queued, its error, if any, fails the batch
Schedule_run_system(ex, w, s, cmds, err) ==
    [ex EXCEPT !.pending = @ \ {s},
               !.cmds = @ \o cmds,
               !.failed = @ \/ err,
               !.errors = IF err THEN Append(@, s) ELSE @,
               !.ran = (s :> [k |-> ex.k, saw |-> System_sees(s, w),
                              start |-> System_sees(s, ex.start),
                              queued |-> ex.cmds, flushed |-> ex.flushed]) @@ @]

\* the end of a batch that applies the queued commands whether or not a
\* system of the batch has failed
Schedule_end_batch_apply(ex, w) ==
    LET applied(w2) ==
            [world |-> w2,
             exec |-> IF ex.failed
                      THEN [ex EXCEPT !.phase = "done", !.cmds = <<>>,
                                      !.flushed = ex.cmds,
                                      !.result = [tag |-> "Err", system |-> ex.errors[1]]]
                      ELSE IF ex.k = Len(ex.batches)
                      THEN [ex EXCEPT !.phase = "done", !.cmds = <<>>,
                                      !.flushed = ex.cmds, !.result = [tag |-> "Ok"]]
                      ELSE [Exec_batch(ex, ex.k + 1, w2) EXCEPT
                               !.cmds = <<>>, !.flushed = ex.cmds]]
    IN applied(CommandBuffer_apply(w, ex.cmds))

\* the end of a batch that leaves the queued commands in the buffer
Schedule_end_batch_keep(ex, w) ==
    [world |-> w,
     exec |-> IF ex.failed
              THEN [ex EXCEPT !.phase = "done", !.cmds = <<>>, !.discarded = ex.cmds,
                              !.result = [tag |-> "Err", system |-> ex.errors[1]]]
              ELSE IF ex.k = Len(ex.batches)
              THEN [ex EXCEPT !.phase = "done", !.result = [tag |-> "Ok"]]
              ELSE Exec_batch(ex, ex.k + 1, w)]

\* the end of a batch: after an error the queued commands are discarded and
\* the execution ends with the first error; else the commands are applied
\* and the next batch starts, or the execution ends
Schedule_end_batch(ex, w) ==
    IF ex.failed
    THEN [world |-> w,
          exec |-> [ex EXCEPT !.phase = "done", !.cmds = <<>>, !.discarded = ex.cmds,
                              !.result = [tag |-> "Err", system |-> ex.errors[1]]]]
    ELSE LET applied(w2) ==
                 [world |-> w2,
                  exec |-> IF ex.k = Len(ex.batches)
                           THEN [ex EXCEPT !.phase = "done", !.cmds = <<>>,
                                           !.flushed = ex.cmds, !.result = [tag |-> "Ok"]]
                           ELSE [Exec_batch(ex, ex.k + 1, w2) EXCEPT
                                    !.cmds = <<>>, !.flushed = ex.cmds]]
         IN applied(CommandBuffer_apply(w, ex.cmds))

(***************************************************************************)
(* The borrow guard of a cell: the column of one component in one          *)
(* archetype is behind an AtomicRefCell, which World::get borrows shared   *)
(* and World::get_mut borrows mutably.  The guard counts the readers or    *)
(* marks the writer; a borrow it cannot grant panics.                      *)
(***************************************************************************)
AtomicRefCell_new == [readers |-> 0, writer |-> FALSE]

\* borrow: granted unless a writer holds the cell
AtomicRefCell_borrow(cell) ==
    IF cell.writer THEN [cell |-> cell, panicked |-> TRUE]
    ELSE [cell |-> [cell EXCEPT !.readers = @ + 1], panicked |-> FALSE]

\* a borrow_mut that looks for another writer only
AtomicRefCell_borrow_mut_readers(cell) ==
    IF cell.writer THEN [cell |-> cell, panicked |-> TRUE]
    ELSE [cell |-> [cell EXCEPT !.writer = TRUE], panicked |-> FALSE]

\* borrow_mut: granted only when nothing holds the cell
AtomicRefCell_borrow_mut(cell) ==
    IF cell.writer \/ cell.readers > 0 THEN [cell |-> cell, panicked |-> TRUE]
    ELSE [cell |-> [cell EXCEPT !.writer = TRUE], panicked |-> FALSE]

\* the drop of an AtomicRef or an AtomicRefMut
AtomicRefCell_release(cell, mutable) ==
    IF mutable THEN [cell EXCEPT !.writer = FALSE]
    ELSE [cell EXCEPT !.readers = @ - 1]

\* the cell World::get and World::get_mut borrow for (id, component): that of
\* the component in the archetype of the entity, None when the entity is
\* not alive or does not have the component
World_cell(w, id, component) ==
    LET loc == EntityStore_get(w.entities, id)
    IN IF IsSome(loc) /\ World_get(w, id, component) /= None
       THEN Some(<<Unwrap(loc).archetype, component>>)
       ELSE None

\* no borrow is held: every guard is as new
Refs_none == [cells |-> <<>>, held |-> <<>>, last |-> [op |-> "new"]]

\* the guard of a cell
Refs_cell(r, key) == IF key \in DOMAIN r.cells THEN r.cells[key] ELSE AtomicRefCell_new

\* World::get / World::get_mut with the borrows held: None without a borrow,
\* else the borrow of the cell, granted or panicking
Refs_get(r, w, id, component, mutable) ==
    LET key == World_cell(w, id, component)
        done(k, b) ==
            IF b.panicked
            THEN [refs |-> [r EXCEPT !.last = [op |-> "get", id |-> id,
                                               component |-> component,
                                               mutable |-> mutable, cell |-> key,
                                               result |-> "panic"]],
                  panicked |-> TRUE]
            ELSE [refs |-> [cells |-> (k :> b.cell) @@ r.cells,
                            held |-> Append(r.held, [cell |-> k, mutable |-> mutable,
                                                     id |-> id]),
                            last |-> [op |-> "get", id |-> id, component |-> component,
                                      mutable |-> mutable, cell |-> key,
                                      result |-> "Some"]],
                  panicked |-> FALSE]
    IN IF key = None
       THEN [refs |-> [r EXCEPT !.last = [op |-> "get", id |-> id, component |-> component,
                                          mutable |-> mutable, cell |-> key,
                                          result |-> "None"]],
             panicked |-> FALSE]
       ELSE done(Unwrap(key),
                 IF mutable THEN AtomicRefCell_borrow_mut(Refs_cell(r, Unwrap(key)))
                 ELSE AtomicRefCell_borrow(Refs_cell(r, Unwrap(key))))

\* the drop of the i-th borrow held
Refs_drop(r, i) ==
    [cells |-> [r.cells EXCEPT ![r.held[i].cell] =
                   AtomicRefCell_release(@, r.held[i].mutable)],
     held |-> SubSeq(r.held, 1, i - 1) \o SubSeq(r.held, i + 1, Len(r.held)),
     last |-> [op |-> "drop", cell |-> Some(r.held[i].cell),
               mutable |-> r.held[i].mutable]]

(***************************************************************************)
(* The topological strategy (src/query/topo.rs).  The world is given by    *)
(* its archetypes 1 .. MaxTopoArchetypes, the targets of the relation in   *)
(* each of them as the list of the archetypes that hold the targets, the   *)
(* archetypes the fetch matches and the order in which the search finds    *)
(* them.                                                                   *)
(***************************************************************************)
TopoArchetypes == 1 .. MaxTopoArchetypes

\* the lists of up to MaxTopoTargets different archetypes
TopoTargetLists ==
    {list \in UNION {[1 .. n -> TopoArchetypes] : n \in 0 .. MaxTopoTargets} :
        \A i \in DOMAIN list, j \in DOMAIN list : i /= j => list[i] /= list[j]}

\* the orders in which the archetypes of a set can be found
TopoDiscoveries(matched) ==
    {list \in [1 .. Cardinality(matched) -> matched] :
        \A i \in DOMAIN list, j \in DOMAIN list : i /= j => list[i] /= list[j]}

Topo_none == [phase |-> "none"]

\* State::default
State_default == [archetypes |-> <<>>, order |-> <<>>, archetypes_index |-> <<>>]

\* the part of State::update before the sort: the matched archetypes in the
\* order found, their indices, and the targets of those that have any
State_collect(discovered, relations) ==
    [archetypes |-> discovered,
     archetypes_index |-> [a \in RangeOf(discovered) |->
                              (CHOOSE i \in DOMAIN discovered : discovered[i] = a) - 1],
     deps |-> [a \in {b \in RangeOf(discovered) : relations[b] /= <<>>} |-> relations[a]]]

State_deps(deps, arch_id) == IF arch_id \in DOMAIN deps THEN deps[arch_id] ELSE <<>>

RECURSIVE State_sort_preorder(_, _, _, _)
RECURSIVE State_sort_all_preorder(_, _, _, _)
\* a sort that pushes the archetype before its dependencies
State_sort_preorder(st, index, deps, arch_id) ==
    IF arch_id \in st.visited THEN st
    ELSE State_sort_all_preorder(
             [order |-> IF arch_id \in DOMAIN index
                        THEN Append(st.order, index[arch_id]) ELSE st.order,
              visited |-> st.visited \cup {arch_id}],
             index, deps, State_deps(deps, arch_id))

State_sort_all_preorder(st, index, deps, list) ==
    IF list = <<>> THEN st
    ELSE State_sort_all_preorder(State_sort_preorder(st, index, deps, Head(list)),
                                 index, deps, Tail(list))

RECURSIVE State_sort(_, _, _, _)
RECURSIVE State_sort_all(_, _, _, _)
\* sort: nothing for a visited archetype; else the dependencies first, then
\* the archetype itself when it is one of the matched
State_sort(st, index, deps, arch_id) ==
    IF arch_id \in st.visited THEN st
    ELSE LET push(s2) ==
                 IF arch_id \in DOMAIN index
                 THEN [s2 EXCEPT !.order = Append(@, index[arch_id])]
                 ELSE s2
         IN push(State_sort_all([st EXCEPT !.visited = @ \cup {arch_id}],
                                index, deps, State_deps(deps, arch_id)))

\* the loop over the dependencies of an archetype, and over self.archetypes
State_sort_all(st, index, deps, list) ==
    IF list = <<>> THEN st
    ELSE State_sort_all(State_sort(st, index, deps, Head(list)), index, deps, Tail(list))

\* the loop over self.archetypes with a visited set of its own for each
RECURSIVE State_sort_each(_, _, _, _)
State_sort_each(order, index, deps, list) ==
    IF list = <<>> THEN order
    ELSE State_sort_each(
             State_sort([order |-> order, visited |-> {}], index, deps, Head(list)).order,
             index, deps, Tail(list))

\* an update that forgets the visited archetypes between two of the loop
State_update_forgetful(discovered, relations) ==
    LET sorted(c) ==
            [archetypes |-> c.archetypes,
             archetypes_index |-> c.archetypes_index,
             order |-> State_sort_each(<<>>, c.archetypes_index, c.deps, c.archetypes)]
    IN sorted(State_collect(discovered, relations))

\* an update that leaves the archetypes in the order found
State_update_unsorted(discovered, relations) ==
    LET sorted(c) ==
            [archetypes |-> c.archetypes,
             archetypes_index |-> c.archetypes_index,
             order |-> [i \in DOMAIN c.archetypes |-> i - 1]]
    IN sorted(State_collect(discovered, relations))

\* State::update
State_update(discovered, relations) ==
    LET sorted(c) ==
            [archetypes |-> c.archetypes,
             archetypes_index |-> c.archetypes_index,
             order |-> State_sort_all([order |-> <<>>, visited |-> {}],
                                      c.archetypes_index, c.deps, c.archetypes).order]
    IN sorted(State_collect(discovered, relations))

\* TopoBorrow::iter: the archetypes in the order of State::order
TopoBorrow_iter(state) == [i \in DOMAIN state.order |-> state.archetypes[state.order[i] + 1]]

(***************************************************************************)
(* Storage (src/archetype/storage.rs): the buffer of the values of one     *)
(* component.  mem is the allocation, cap slots of which the first len     *)
(* hold values; a slot beyond len keeps the bits last written to it.  A    *)
(* value is named by the number of the push that moved it in; 0 is memory  *)
(* never written.                                                          *)
(***************************************************************************)
Stor_none == [phase |-> "none"]

\* Storage::new
Storage_new == [mem |-> <<>>, len |-> 0, cap |-> 0]

\* usize::next_power_of_two for the sizes of the model
NextPowerOfTwo(n) == CHOOSE p \in {1, 2, 4, 8, 16} : p >= n /\ \A q \in {1, 2, 4, 8, 16} : q >= n => p <= q

\* Storage::reserve: the allocation grown to the next power of two, 4 at
\* least, its values kept
Storage_reserve(s, additional) ==
    IF s.len + additional <= s.cap THEN s
    ELSE LET grown(new_cap) ==
                 [s EXCEPT !.cap = new_cap,
                           !.mem = [i \in 1 .. new_cap |->
                                       IF i <= Len(s.mem) THEN s.mem[i] ELSE 0]]
         IN grown(Max(NextPowerOfTwo(s.len + additional), 4))

\* Storage::push
Storage_push(s, item) ==
    LET write(r) == [r EXCEPT !.mem[r.len + 1] = item, !.len = @ + 1]
    IN write(Storage_reserve(s, 1))

\* Storage::swap_remove for a slot below len: on_move is given the value of
\* the slot, the last value is copied into the slot
Storage_swap_remove(s, slot) ==
    [storage |-> [s EXCEPT !.mem[slot + 1] = s.mem[s.len], !.len = @ - 1],
     moved |-> <<s.mem[slot + 1]>>]

\* an append that leaves the length of other as it was
Storage_append_keep_len(self, other) ==
    IF self.len = 0 THEN [self |-> other, other |-> self]
    ELSE LET copy(r) ==
                 [self |-> [r EXCEPT !.mem = [i \in DOMAIN r.mem |->
                                                 IF i > r.len /\ i <= r.len + other.len
                                                 THEN other.mem[i - r.len] ELSE r.mem[i]],
                                     !.len = @ + other.len],
                  other |-> other]
         IN copy(Storage_reserve(self, other.len))

\* Storage::append: the storages swapped when self is empty, else the values
\* of other copied behind those of self and other left empty
Storage_append(self, other) ==
    IF self.len = 0 THEN [self |-> other, other |-> self]
    ELSE LET copy(r) ==
                 [self |-> [r EXCEPT !.mem = [i \in DOMAIN r.mem |->
                                                 IF i > r.len /\ i <= r.len + other.len
                                                 THEN other.mem[i - r.len] ELSE r.mem[i]],
                                     !.len = @ + other.len],
                  other |-> [other EXCEPT !.len = 0]]
         IN copy(Storage_reserve(self, other.len))

\* Storage::clear: the drop hook called for the values of the slots below len
Storage_clear(s) ==
    [storage |-> [s EXCEPT !.len = 0], dropped |-> SubSeq(s.mem, 1, s.len)]

\* the drop counts after the drop hook ran for the values of the list
RECURSIVE Stor_count(_, _)
Stor_count(drops_, list) ==
    IF list = <<>> THEN drops_
    ELSE Stor_count([drops_ EXCEPT ![Head(list)] = @ + 1], Tail(list))

\* two storages of one component, no value pushed
Stor_new ==
    [phase |-> "live", s |-> [a |-> Storage_new, b |-> Storage_new], live |-> {"a", "b"},
     drops |-> [v \in 1 .. MaxStorValues |-> 0], pushed |-> 0, ops |-> 0, done |-> {},
     panicked |-> FALSE]

(***************************************************************************)
(* The bits of an Entity (src/entity/mod.rs).  The 64 bits are kept as     *)
(* four words of 16 bits, the lowest first:                                *)
(* | 16 reserved | 16 generation | 24 index | 8 namespace |                *)
(***************************************************************************)
Ids_none == [phase |-> "none"]

\* u32::MAX >> 1, the bound from_parts asserts for the index
Index_LIMIT == 2147483647

\* Entity::from_parts: ((index & 0xFFFFFF) << 8) | (gen << 32) | namespace,
\* behind the assertion on the index; NonZeroU64::new(bits).unwrap() panics
\* for bits that are all zero
Entity_from_parts_bits(index, gen, namespace) ==
    LET pack(masked) ==
            <<(masked % Namespace_COUNT) * Namespace_COUNT + namespace,
              masked \div Namespace_COUNT,
              gen,
              0>>
        made(bits) ==
            IF bits = <<0, 0, 0, 0>> THEN [panicked |-> TRUE]
            ELSE [panicked |-> FALSE, bits |-> bits]
    IN IF ~(index < Index_LIMIT) THEN [panicked |-> TRUE]
       ELSE made(pack(index % Index_COUNT))

\* Entity::into_parts: (bits as u32 >> 8, (bits >> 32) as u16, bits as u8);
\* NonZeroU32::new(index).unwrap() panics for an index of zero
Entity_into_parts(bits) ==
    LET parts(index) ==
            IF index = 0 THEN [panicked |-> TRUE]
            ELSE [panicked |-> FALSE,
                  parts |-> <<index, bits[3], bits[1] % Namespace_COUNT>>]
    IN parts(bits[2] * Namespace_COUNT + bits[1] \div Namespace_COUNT)

Ticks_none == [phase |-> "none"]
Sub_none == [phase |-> "none"]
EFetch_none == [phase |-> "none"]
Sched_none == [phase |-> "none"]

(***************************************************************************)
(* The batching of any list of systems.  The list is given by the accesses *)
(* of its systems, acc[1] .. acc[n] in declared order; a system is placed  *)
(* into the first batch none of whose systems it conflicts with.           *)
(***************************************************************************)
\* the accesses a system of the list may hold of one component: none, shared
\* or mutable
SchedAccessSets ==
    {a \in SUBSET {Access_new("Archetype", 0, c, m) :
                      c \in 1 .. NumSchedComponents, m \in BOOLEAN} :
        \A x \in a, y \in a : x.component = y.component => x = y}

Schedule_conflicts_in(acc, s, t) ==
    \E a \in acc[s], b \in acc[t] : Access_conflicts(a, b)

Schedule_fits_in(acc, batch, s) ==
    \A k \in DOMAIN batch : ~Schedule_conflicts_in(acc, batch[k], s)

\* the system joins the newest batch when it fits it, else opens a new batch
Schedule_place_in_newest(acc, batches_, s) ==
    IF batches_ /= <<>> /\ Schedule_fits_in(acc, batches_[Len(batches_)], s)
    THEN [batches_ EXCEPT ![Len(batches_)] = Append(@, s)]
    ELSE Append(batches_, <<s>>)

\* the system joins the first batch it fits, else opens a new batch
Schedule_place_in(acc, batches_, s) ==
    IF \E k \in DOMAIN batches_ : Schedule_fits_in(acc, batches_[k], s)
    THEN LET k == CHOOSE j \in DOMAIN batches_ :
                      /\ Schedule_fits_in(acc, batches_[j], s)
                      /\ \A h \in 1 .. j - 1 : ~Schedule_fits_in(acc, batches_[h], s)
         IN [batches_ EXCEPT ![k] = Append(@, s)]
    ELSE Append(batches_, <<s>>)

RECURSIVE Schedule_batch_in(_, _, _)
Schedule_batch_in(acc, batches_, k) ==
    IF k > Len(acc) THEN batches_
    ELSE Schedule_batch_in(acc, Schedule_place_in(acc, batches_, k), k + 1)

(***************************************************************************)
(* State.                                                                  *)
(***************************************************************************)
VARIABLES
    entities,   \* World::entities, the EntityStore
    archetypes, \* World::archetypes
    change_tick,\* the change tick of the World
    drops,      \* number of component values dropped so far
    spawned,    \* the ids spawn and spawn_with returned
    panicked,   \* TRUE once an operation has panicked
    last,       \* the last World operation, its inputs and its result
    world_ops,  \* number of World operations applied
    st_live,    \* ids returned by spawn and not despawned since
    st_stale,   \* Some(the first id that was despawned), None before
    st_bumps,   \* despawns of each index so far
    st_last,    \* the last entity store operation and the store before it
    cl_a,       \* a ChangeList (its inner vector)
    cl_b,       \* a second ChangeList, the target of migrate_to
    cl_ops,     \* number of change list operations applied
    cl_last,    \* the last change list operation, its inputs and its result
    queries,    \* per Query: the cached archetype list and the tick of its last run
    borrow,     \* the QueryBorrow held, None when no query is borrowed
    q_last,     \* the last query operation, its inputs and its result
    q_ops,      \* number of borrows taken and of get calls made so far
    q_written,  \* ids whose first component was written since the last run of
                \* the change query: all of them, and those through get_mut
    batches,    \* the batches of the last batch_info call
    exec,       \* the execution of the Schedule: batches, queued commands, result
    refs,       \* the borrows of component values held through World::get / get_mut
    topo,       \* the relation graph given to the Topo strategy and its State
    stor,       \* the Storages under test and the drops counted per value
    eid,        \* the entity ids built from parts and taken apart
    ticks,      \* the borrows of the change query, the writer and the MaybeMut query
    sub,        \* the FilterSubscriber and the events it sent
    efetch,     \* the query by entity id
    sched       \* a list of systems with their accesses and its batches

clvars == <<cl_a, cl_b, cl_ops, cl_last>>
stvars == <<entities, st_live, st_stale, st_bumps, st_last>>
sthist == <<st_live, st_stale, st_bumps, st_last>>
wvars == <<archetypes, change_tick, drops, spawned, panicked, last, world_ops>>
xvars == <<exec, refs, topo, stor, eid, ticks, sub, efetch, sched>>
yvars == <<eid, ticks, sub, efetch, sched>>
qvars == <<queries, borrow, q_last, q_ops, q_written, batches, exec, refs, topo, stor, eid, ticks, sub, efetch, sched>>
vars == <<archetypes, change_tick, drops, spawned, panicked, last, world_ops, entities, st_live, st_stale, st_bumps, st_last, cl_a, cl_b, cl_ops, cl_last, queries, borrow, q_last, q_ops, q_written, batches, exec, refs, topo, stor, eid, ticks, sub, efetch, sched>>

(***************************************************************************)
(* The change list driven on its own: any sequence of set, remove,         *)
(* migrate_to and swap_out with slices and ticks drawn from the bounds.    *)
(***************************************************************************)
Slots == 0 .. MaxSlot - 1
Ticks == 1 .. MaxTick
Slices == {sl \in {Slice_new(s, e) : s \in Slots, e \in 1 .. MaxSlot} : sl.start < sl.end}

WInit ==
    /\ archetypes = World_new.archetypes
    /\ change_tick = 0
    /\ drops = 0
    /\ spawned = {}
    /\ panicked = FALSE
    /\ last = [op |-> "new", only_spawn_insert |-> TRUE]
    /\ world_ops = 0

StInit ==
    /\ entities = World_new.entities
    /\ st_live = {}
    /\ st_stale = None
    /\ st_bumps = <<>>
    /\ st_last = [op |-> "new"]

CLInit0 ==
    /\ cl_a = <<>>
    /\ cl_b = <<>>
    /\ cl_ops = 0
    /\ cl_last = [op |-> "new", only_set |-> TRUE]

\* the queries of the model: the change query reads the first component of
\* the entities whose first component was modified, the mover writes the
\* first component where it is above 1, the lonely query reads the first
\* component of the archetypes without the second
QueryNames == {"changed", "mover", "lonely"}
QueryFetch ==
    [q \in QueryNames |->
        CASE q = "changed" -> Fetch_new({1}, {}, {}, {}, {1}, <<>>)
          [] q = "mover" -> Fetch_new({}, {1}, {}, {}, {}, (1 :> 1))
          [] q = "lonely" -> Fetch_new({1}, {}, {}, {2}, {}, <<>>)]

\* Query::new: no cached archetype list, and no run yet
Query_new == [archetypes |-> None, last_run |-> 0]

\* no schedule is executing, no borrow is held, no relation graph and no
\* storage has been built
XInit ==
    /\ exec = Exec_idle
    /\ refs = Refs_none
    /\ topo = Topo_none
    /\ stor = Stor_none

YInit ==
    /\ eid = Ids_none
    /\ ticks = Ticks_none
    /\ sub = Sub_none
    /\ efetch = EFetch_none
    /\ sched = Sched_none

QueryInit ==
    /\ queries = [q \in QueryNames |-> Query_new]
    /\ borrow = None
    /\ q_last = [op |-> "new"]
    /\ q_ops = [borrows |-> 0, gets |-> 0]
    /\ q_written = [any |-> {}, get_mut |-> {}]
    /\ batches = <<>>

QInit == QueryInit /\ XInit /\ YInit

CLInit == CLInit0 /\ StInit /\ WInit /\ QInit

CLSet(slice, tick) ==
    /\ cl_ops < MaxOps
    /\ UNCHANGED <<stvars, wvars>>
    /\ cl_a' = ChangeList_set(cl_a, Change_modified(slice, tick))
    /\ cl_b' = cl_b
    /\ cl_ops' = cl_ops + 1
    /\ cl_last' = [op |-> "set", slice |-> slice, tick |-> tick, a |-> cl_a, b |-> cl_b,
                   only_set |-> cl_last.only_set]

CLRemove(slot) ==
    /\ cl_ops < MaxOps
    /\ UNCHANGED <<stvars, wvars>>
    /\ LET r == ChangeList_remove(cl_a, slot)
       IN /\ cl_a' = r.inner
          /\ cl_last' = [op |-> "remove", slot |-> slot, a |-> cl_a, b |-> cl_b,
                         removed |-> r.removed, only_set |-> FALSE]
    /\ cl_b' = cl_b
    /\ cl_ops' = cl_ops + 1

CLMigrate(src, dst) ==
    /\ cl_ops < MaxOps
    /\ UNCHANGED <<stvars, wvars>>
    /\ LET r == ChangeList_migrate_to(cl_a, cl_b, src, dst)
       IN /\ cl_a' = r.self
          /\ cl_b' = r.other
    /\ cl_ops' = cl_ops + 1
    /\ cl_last' = [op |-> "migrate_to", src |-> src, dst |-> dst, a |-> cl_a, b |-> cl_b,
                   only_set |-> FALSE]

CLSwapOut(src, dst) ==
    /\ cl_ops < MaxOps
    /\ UNCHANGED <<stvars, wvars>>
    /\ LET r == ChangeList_swap_out(cl_a, src, dst)
       IN /\ cl_a' = r.inner
          /\ cl_last' = [op |-> "swap_out", src |-> src, dst |-> dst, a |-> cl_a,
                         b |-> cl_b, removed |-> r.removed, only_set |-> FALSE]
    /\ cl_b' = cl_b
    /\ cl_ops' = cl_ops + 1

CLNext ==
    \/ \E slice \in Slices, tick \in Ticks : CLSet(slice, tick) /\ UNCHANGED qvars
    \/ \E slot \in Slots : CLRemove(slot) /\ UNCHANGED qvars
    \/ \E src \in Slots, dst \in Slots : CLMigrate(src, dst) /\ UNCHANGED qvars
    \/ \E src \in Slots, dst \in Slots : CLSwapOut(src, dst) /\ UNCHANGED qvars

SpecCL == CLInit /\ [][CLNext]_vars

(***************************************************************************)
(* The World: any sequence of spawn, spawn_with, insert (set), remove and  *)
(* despawn on the ids handed out so far.                                   *)
(***************************************************************************)
ComponentIds == 1 .. NumComponents
Values == 1 .. MaxValue
\* the buffers given to spawn_with: some components, all with one value
Buffers == {[c \in cs |-> v] : cs \in SUBSET ComponentIds \ {{}}, v \in Values}

world == [entities |-> entities, archetypes |-> archetypes]
Init == WInit /\ StInit /\ CLInit0 /\ QInit

Step ==
    /\ ~panicked
    /\ world_ops < MaxWorldOps
    /\ world_ops' = world_ops + 1

Spawn ==
    /\ Step
    /\ Cardinality(spawned) < MaxSpawns
    /\ LET apply(r) ==
               /\ entities' = r.world.entities
               /\ archetypes' = r.world.archetypes
               /\ spawned' = spawned \cup {r.id}
               /\ last' = [op |-> "spawn", id |-> r.id,
                           only_spawn_insert |-> last.only_spawn_insert]
       IN apply(World_spawn(world))
    /\ UNCHANGED <<change_tick, drops, panicked, sthist, clvars>>

SpawnWith(buffer) ==
    /\ Step
    /\ Cardinality(spawned) < MaxSpawns
    /\ LET apply(r) ==
               /\ Len(r.world.archetypes) <= MaxArchetypes
               /\ entities' = r.world.entities
               /\ archetypes' = r.world.archetypes
               /\ change_tick' = r.tick
               /\ spawned' = spawned \cup {r.id}
               /\ last' = [op |-> "spawn_with", id |-> r.id, buffer |-> buffer,
                           only_spawn_insert |-> last.only_spawn_insert]
       IN apply(World_spawn_with(world, change_tick, buffer))
    /\ UNCHANGED <<drops, panicked, sthist, clvars>>

\* the entity that a move of id out of its slot swaps into the slot, if any
Swapped(w, id) ==
    LET loc == Unwrap(EntityStore_get(w.entities, id))
        src == World_archetype(w.archetypes, loc.archetype)
        last_ == Len(src.entities) - 1
    IN IF loc.slot /= last_ THEN Some(src.entities[last_ + 1]) ELSE None

\* the entity swapped by the operation, for a live id
SwappedOf(w, id) == IF World_is_alive(w, id) THEN Swapped(w, id) ELSE None

Insert(id, component, value) ==
    /\ Step
    /\ LET apply(r) ==
               /\ Len(r.archetypes) <= MaxArchetypes
               /\ entities' = r.entities
               /\ archetypes' = r.archetypes
               /\ panicked' = r.panicked
               /\ last' = [op |-> "insert", id |-> id, component |-> component,
                           value |-> value, alive |-> World_is_alive(world, id),
                           had |-> World_has(world, id, component),
                           swapped |-> SwappedOf(world, id),
                           only_spawn_insert |-> last.only_spawn_insert]
       IN apply(World_insert(world, id, component, value))
    /\ UNCHANGED <<change_tick, drops, spawned, sthist, clvars>>

Remove(id, component) ==
    /\ Step
    /\ LET apply(r) ==
               /\ Len(r.world.archetypes) <= MaxArchetypes
               /\ entities' = r.world.entities
               /\ archetypes' = r.world.archetypes
               /\ change_tick' = r.tick
               /\ drops' = drops + r.dropped
               /\ panicked' = r.panicked
               /\ last' = [op |-> "remove", id |-> id, component |-> component,
                           result |-> r.result,
                           swapped |-> IF r.result = "Ok" THEN Swapped(world, id)
                                       ELSE None,
                           only_spawn_insert |-> FALSE]
       IN apply(World_remove(world, change_tick, id, component))
    /\ UNCHANGED <<spawned, sthist, clvars>>

Despawn(id) ==
    /\ Step
    /\ entities' = World_despawn(world, id).entities
    /\ archetypes' = World_despawn(world, id).archetypes
    /\ last' = [op |-> "despawn", id |-> id,
                components |-> IF World_is_alive(world, id)
                               THEN Len(World_archetype(archetypes,
                                        Unwrap(EntityStore_get(entities, id)).archetype).components)
                               ELSE 0,
                alive |-> World_is_alive(world, id),
                only_spawn_insert |-> FALSE]
    /\ UNCHANGED <<change_tick, drops, spawned, panicked, sthist, clvars>>

Next ==
    \/ Spawn /\ UNCHANGED qvars
    \/ \E buffer \in Buffers : SpawnWith(buffer) /\ UNCHANGED qvars
    \/ \E id \in spawned, c \in ComponentIds, v \in Values :
           Insert(id, c, v) /\ UNCHANGED qvars
    \/ \E id \in spawned, c \in ComponentIds : Remove(id, c) /\ UNCHANGED qvars
    \/ \E id \in spawned : Despawn(id) /\ UNCHANGED qvars

Spec == Init /\ [][Next]_vars

(***************************************************************************)
(* The entity store driven on its own through spawn and World::despawn.    *)
(* The first index may be despawned until its generation has wrapped; the  *)
(* other indices at most MaxRespawn times, and not once the first index    *)
(* has been despawned more than MaxRespawn times.                          *)
(***************************************************************************)
StoreInit == StInit /\ CLInit0 /\ WInit /\ QInit

StoreSpawn ==
    /\ entities.free /= <<>> \/ Len(entities.slots) < MaxStoreIndex
    /\ LET r == EntityStore_spawn(entities, EntityLocation(0, Len(entities.slots)))
       IN /\ entities' = r.store
          /\ st_live' = st_live \cup {r.id}
          /\ st_bumps' = IF Len(r.store.slots) > Len(st_bumps)
                         THEN Append(st_bumps, 0) ELSE st_bumps
          /\ st_last' = [op |-> "spawn", id |-> r.id, entities |-> entities]
    /\ UNCHANGED <<st_stale, clvars, wvars>>

StoreDespawn(id) ==
    /\ IF Entity_index(id) = 1
       THEN st_bumps[1] <= Generation_COUNT
       ELSE st_bumps[Entity_index(id)] < MaxRespawn /\ st_bumps[1] <= MaxRespawn
    /\ entities' = World_despawn_entities(entities, id)
    /\ st_live' = st_live \ {id}
    /\ st_stale' = IF st_stale = None THEN Some(id) ELSE st_stale
    /\ st_bumps' = [st_bumps EXCEPT ![Entity_index(id)] = @ + 1]
    /\ st_last' = [op |-> "despawn", id |-> id, entities |-> entities]
    /\ UNCHANGED <<clvars, wvars>>

StoreNext ==
    \/ StoreSpawn /\ UNCHANGED qvars
    \/ \E id \in st_live : StoreDespawn(id) /\ UNCHANGED qvars

SpecStore == StoreInit /\ [][StoreNext]_vars

(***************************************************************************)
(* Queries over the World: the World operations, get_mut among them, while *)
(* no query is borrowed; a borrow of a query, then get calls, one          *)
(* iteration run to its end, and the release of the borrow.                *)
(***************************************************************************)
\* the ids whose first component the World operation wrote
Written(l) ==
    IF l.op = "spawn_with" /\ 1 \in DOMAIN l.buffer THEN {l.id}
    ELSE IF l.op = "insert" /\ l.component = 1 /\ l.alive THEN {l.id}
    ELSE IF l.op = "get_mut" /\ l.component = 1 /\ l.result /= None THEN {l.id}
    ELSE {}

\* what a World operation leaves to the queries
QTrack ==
    /\ borrow = None
    /\ world_ops < MaxQueryWorldOps
    /\ q_written' = [any |-> q_written.any \cup Written(last'),
                     get_mut |-> q_written.get_mut \cup
                                    (IF last'.op = "get_mut" THEN Written(last') ELSE {})]
    /\ q_last' = [op |-> "world"]
    /\ UNCHANGED <<queries, borrow, q_ops, batches, xvars>>

GetMut(id, component, value) ==
    /\ Step
    /\ LET apply(r) ==
               /\ archetypes' = r.archetypes
               /\ last' = [op |-> "get_mut", id |-> id, component |-> component,
                           value |-> value, result |-> r.result,
                           only_spawn_insert |-> FALSE]
       IN apply(World_get_mut(world, id, component, value))
    /\ UNCHANGED <<entities, change_tick, drops, spawned, panicked, sthist, clvars>>

\* the ids the query wrote the first component of, given those it yielded
WrittenThrough(fetch, ids) == IF 1 \in fetch.mutable THEN ids ELSE {}

\* Query::borrow: the archetype list of the query and the ticks; a fetch
\* that writes advances the change tick
Borrow(q) ==
    /\ ~panicked
    /\ borrow = None
    /\ q_ops.borrows < MaxBorrows
    /\ LET apply(cache, tick) ==
               /\ queries' = [queries EXCEPT ![q].archetypes = cache]
               /\ change_tick' = tick
               /\ borrow' = Some([q |-> q, iterated |-> FALSE,
                                  first |-> queries[q].archetypes = None]
                                 @@ QueryBorrow_new(QueryFetch[q], Unwrap(cache),
                                                    queries[q].last_run, tick))
       IN apply(Query_get_archetypes(queries[q].archetypes, archetypes, QueryFetch[q]),
                IF QueryFetch[q].mutable /= {} THEN change_tick + 1 ELSE change_tick)
    /\ q_ops' = [q_ops EXCEPT !.borrows = @ + 1]
    /\ q_last' = [op |-> "borrow", q |-> q]
    /\ UNCHANGED <<entities, archetypes, drops, spawned, panicked, last, world_ops,
                   sthist, clvars, q_written, batches, xvars>>

Get(id) ==
    /\ borrow /= None
    /\ ~Unwrap(borrow).iterated
    /\ q_ops.gets < MaxGets
    /\ q_ops' = [q_ops EXCEPT !.gets = @ + 1]
    /\ LET apply(b, r) ==
               /\ borrow' = Some(r.borrow)
               /\ archetypes' = r.archetypes
               /\ q_last' = [op |-> "get", q |-> b.q, id |-> id, result |-> r.result]
               /\ q_written' = [q_written EXCEPT !.any = @ \cup
                                   (IF r.result = "Ok"
                                    THEN WrittenThrough(b.fetch, {id}) ELSE {})]
       IN apply(Unwrap(borrow), QueryBorrow_get(Unwrap(borrow), world, id))
    /\ UNCHANGED <<entities, change_tick, drops, spawned, panicked, last, world_ops,
                   sthist, clvars, queries, batches, xvars>>

Iter ==
    /\ borrow /= None
    /\ ~Unwrap(borrow).iterated
    /\ LET apply(b, r) ==
               /\ borrow' = Some([r.borrow EXCEPT !.iterated = TRUE])
               /\ archetypes' = r.archetypes
               /\ q_last' = [op |-> "iter", q |-> b.q, chunks |-> r.chunks,
                             yielded |-> r.yielded]
               /\ q_written' = [q_written EXCEPT !.any = @ \cup
                                   WrittenThrough(b.fetch, RangeOf(r.yielded))]
       IN apply(Unwrap(borrow), QueryBorrow_iter(Unwrap(borrow), archetypes))
    /\ UNCHANGED <<entities, change_tick, drops, spawned, panicked, last, world_ops,
                   sthist, clvars, queries, q_ops, batches, xvars>>

\* the borrow is dropped: the query keeps the tick of the borrow as its last run
Release ==
    /\ borrow /= None
    /\ LET apply(b) ==
               /\ queries' = [queries EXCEPT ![b.q].last_run = b.new_tick]
               /\ q_last' = [op |-> "release", q |-> b.q]
               /\ q_written' = IF b.q = "changed"
                               THEN [any |-> {}, get_mut |-> {}]
                               ELSE q_written
       IN apply(Unwrap(borrow))
    /\ borrow' = None
    /\ UNCHANGED <<entities, archetypes, change_tick, drops, spawned, panicked, last,
                   world_ops, sthist, clvars, q_ops, batches, xvars>>

Prune ==
    /\ Step
    /\ LET apply(r) ==
               /\ archetypes' = r.archetypes
               /\ last' = [op |-> "prune", count |-> r.count,
                           only_spawn_insert |-> FALSE]
       IN apply(World_prune_archetypes(archetypes))
    /\ UNCHANGED <<entities, change_tick, drops, spawned, panicked, sthist, clvars>>

BatchInfo ==
    /\ ~panicked
    /\ borrow = None
    /\ q_last.op /= "batch_info"
    /\ batches' = Schedule_batch_info(archetypes)
    /\ q_last' = [op |-> "batch_info", before |-> batches]
    /\ UNCHANGED <<entities, archetypes, change_tick, drops, spawned, panicked, last,
                   world_ops, sthist, clvars, queries, borrow, q_ops, q_written, xvars>>

QNext ==
    \/ Spawn /\ QTrack
    \/ \E buffer \in Buffers : SpawnWith(buffer) /\ QTrack
    \/ \E id \in spawned, c \in ComponentIds, v \in Values : Insert(id, c, v) /\ QTrack
    \/ \E id \in spawned, c \in ComponentIds : Remove(id, c) /\ QTrack
    \/ \E id \in spawned : Despawn(id) /\ QTrack
    \/ \E id \in spawned, c \in ComponentIds, v \in Values : GetMut(id, c, v) /\ QTrack
    \/ \E q \in QueryNames : Borrow(q)
    \/ \E id \in spawned : Get(id)
    \/ Iter
    \/ Release

SpecQuery == Init /\ [][QNext]_vars

(***************************************************************************)
(* The schedule over the World: batch_info between any World operations.   *)
(***************************************************************************)
STrack ==
    /\ q_last' = [op |-> "world"]
    /\ UNCHANGED <<queries, borrow, q_ops, q_written, batches, xvars>>

ScheduleNext ==
    \/ Spawn /\ STrack
    \/ \E buffer \in Buffers : SpawnWith(buffer) /\ STrack
    \/ \E id \in spawned, c \in ComponentIds, v \in Values : Insert(id, c, v) /\ STrack
    \/ \E id \in spawned, c \in ComponentIds : Remove(id, c) /\ STrack
    \/ \E id \in spawned : Despawn(id) /\ STrack
    \/ Prune /\ STrack
    \/ BatchInfo

SpecSchedule == Init /\ [][ScheduleNext]_vars

(***************************************************************************)
(* The execution of the schedule over a world built by spawn_with and set. *)
(***************************************************************************)
\* the flush markers tried: none, and after the third system
FlushMarkers == {0, 3}

\* the systems that may return an error
Fallible == {"blue", "commands", "cleanup"}

\* the commands a system may record in one run: none or one
SystemCommands(s, w) ==
    {<<>>} \cup
    (IF s = "commands"
     THEN {<<Command_set(id, c, MaxValue)>> :
              id \in {i \in spawned : World_is_alive(w, i)}, c \in ComponentIds}
     ELSE IF s = "cleanup"
     THEN {<<Command_despawn(id)>> : id \in {i \in spawned : World_is_alive(w, i)}}
     ELSE {})

ExecSetup ==
    /\ exec.phase = "idle"
    /\ world_ops < MaxExecWorldOps
    /\ STrack

Execute(p) ==
    /\ exec.phase = "idle"
    /\ ~panicked
    /\ exec' = Schedule_execute(world, p)
    /\ UNCHANGED <<entities, archetypes, change_tick, drops, spawned, panicked, last,
                   world_ops, sthist, clvars, queries, borrow, q_last, q_ops,
                   q_written, batches, refs, topo, stor, eid, ticks, sub, efetch, sched>>

RunSystem(s, cmds, err) ==
    /\ exec.phase = "running"
    /\ s \in exec.pending
    /\ exec' = Schedule_run_system(exec, world, s, cmds, err)
    /\ UNCHANGED <<entities, archetypes, change_tick, drops, spawned, panicked, last,
                   world_ops, sthist, clvars, queries, borrow, q_last, q_ops,
                   q_written, batches, refs, topo, stor, eid, ticks, sub, efetch, sched>>

EndBatch ==
    /\ exec.phase = "running"
    /\ exec.pending = {} \/ exec.failed
    /\ LET apply(r) ==
               /\ Len(r.world.archetypes) <= MaxArchetypes
               /\ entities' = r.world.entities
               /\ archetypes' = r.world.archetypes
               /\ exec' = r.exec
       IN apply(Schedule_end_batch(exec, world))
    /\ UNCHANGED <<change_tick, drops, spawned, panicked, last,
                   world_ops, sthist, clvars, queries, borrow, q_last, q_ops,
                   q_written, batches, refs, topo, stor, eid, ticks, sub, efetch, sched>>

ExecNext ==
    \/ \E buffer \in Buffers : SpawnWith(buffer) /\ ExecSetup
    \/ \E id \in spawned, c \in ComponentIds, v \in Values : Insert(id, c, v) /\ ExecSetup
    \/ \E p \in FlushMarkers : Execute(p)
    \/ \E s \in RangeOf(Systems) :
           \E cmds \in SystemCommands(s, world), err \in {FALSE} \cup {s \in Fallible} :
               RunSystem(s, cmds, err)
    \/ EndBatch

SpecExec == Init /\ [][ExecNext]_vars

(***************************************************************************)
(* Borrows of component values through World::get and World::get_mut over  *)
(* a world built by spawn_with and set.  The world is not changed while a  *)
(* borrow is held.                                                         *)
(***************************************************************************)
RefsSetup ==
    /\ refs.held = <<>>
    /\ refs.last.op = "new"
    /\ world_ops < MaxBorrowWorldOps
    /\ UNCHANGED qvars

RefGet(id, component, mutable) ==
    /\ ~panicked
    /\ Len(refs.held) < MaxRefs
    /\ LET apply(r) ==
               /\ refs' = r.refs
               /\ panicked' = r.panicked
       IN apply(Refs_get(refs, world, id, component, mutable))
    /\ UNCHANGED <<entities, archetypes, change_tick, drops, spawned, last,
                   world_ops, sthist, clvars, queries, borrow, q_last, q_ops,
                   q_written, batches, exec, topo, stor, eid, ticks, sub, efetch, sched>>

RefDrop(i) ==
    /\ ~panicked
    /\ refs' = Refs_drop(refs, i)
    /\ UNCHANGED <<entities, archetypes, change_tick, drops, spawned, panicked, last,
                   world_ops, sthist, clvars, queries, borrow, q_last, q_ops,
                   q_written, batches, exec, topo, stor, eid, ticks, sub, efetch, sched>>

RefsNext ==
    \/ \E buffer \in Buffers : SpawnWith(buffer) /\ RefsSetup
    \/ \E id \in spawned, c \in ComponentIds, v \in Values : Insert(id, c, v) /\ RefsSetup
    \/ \E id \in spawned, c \in ComponentIds, mutable \in BOOLEAN : RefGet(id, c, mutable)
    \/ \E i \in DOMAIN refs.held : RefDrop(i)

SpecRefs == Init /\ [][RefsNext]_vars

(***************************************************************************)
(* The topological strategy over every relation graph of the bounds: the   *)
(* graph is drawn at the start, borrow updates the State, iter visits.     *)
(***************************************************************************)
TopoInputs ==
    {[phase |-> "input", relations |-> relations, matched |-> RangeOf(discovered),
      discovered |-> discovered, state |-> State_default, yielded |-> <<>>] :
        relations \in [TopoArchetypes -> TopoTargetLists],
        discovered \in UNION {TopoDiscoveries(m) : m \in SUBSET TopoArchetypes}}

TopoInit ==
    /\ WInit /\ StInit /\ CLInit0 /\ QueryInit
    /\ exec = Exec_idle
    /\ refs = Refs_none
    /\ stor = Stor_none
    /\ YInit
    /\ topo \in TopoInputs

\* Topo::borrow of a dirty query
TopoBorrow ==
    /\ topo.phase = "input"
    /\ topo' = [topo EXCEPT !.phase = "borrowed",
                            !.state = State_update(topo.discovered, topo.relations)]
    /\ UNCHANGED <<entities, archetypes, change_tick, drops, spawned, panicked, last,
                   world_ops, sthist, clvars, queries, borrow, q_last, q_ops,
                   q_written, batches, exec, refs, stor, eid, ticks, sub, efetch, sched>>

\* TopoBorrow::iter run to its end
TopoIter ==
    /\ topo.phase = "borrowed"
    /\ topo' = [topo EXCEPT !.phase = "iterated", !.yielded = TopoBorrow_iter(topo.state)]
    /\ UNCHANGED <<entities, archetypes, change_tick, drops, spawned, panicked, last,
                   world_ops, sthist, clvars, queries, borrow, q_last, q_ops,
                   q_written, batches, exec, refs, stor, eid, ticks, sub, efetch, sched>>

TopoNext == TopoBorrow \/ TopoIter

SpecTopo == TopoInit /\ [][TopoNext]_vars

\* every borrow is followed by the iteration
SpecTopoLive == SpecTopo /\ WF_vars(TopoNext)

(***************************************************************************)
(* Two Storages of one component driven through push, swap_remove with a   *)
(* dropping on_move, append, clear and drop.                               *)
(***************************************************************************)
StorInit ==
    /\ WInit /\ StInit /\ CLInit0 /\ QueryInit
    /\ exec = Exec_idle
    /\ refs = Refs_none
    /\ topo = Topo_none
    /\ stor = Stor_new
    /\ YInit

StorRest ==
    UNCHANGED <<entities, archetypes, change_tick, drops, spawned, panicked, last,
                world_ops, sthist, clvars, queries, borrow, q_last, q_ops,
                q_written, batches, exec, refs, topo, yvars>>

StorStep ==
    /\ ~stor.panicked
    /\ stor.ops < MaxStorOps

StorPush(x) ==
    /\ StorStep
    /\ x \in stor.live
    /\ stor.pushed < MaxStorValues
    /\ stor' = [stor EXCEPT !.s[x] = Storage_push(@, stor.pushed + 1),
                            !.pushed = @ + 1, !.ops = @ + 1,
                            !.done = @ \cup {"push"}]
    /\ StorRest

\* swap_remove(slot, |v| drop_in_place(v)); a slot out of bounds panics
StorSwapRemove(x, slot) ==
    /\ StorStep
    /\ x \in stor.live
    /\ IF slot >= stor.s[x].len
       THEN stor' = [stor EXCEPT !.panicked = TRUE, !.ops = @ + 1]
       ELSE LET apply(r) ==
                    stor' = [stor EXCEPT !.s[x] = r.storage,
                                         !.drops = Stor_count(@, r.moved),
                                         !.ops = @ + 1,
                                         !.done = @ \cup {"swap_remove"}]
            IN apply(Storage_swap_remove(stor.s[x], slot))
    /\ StorRest

StorAppend(x, y) ==
    /\ StorStep
    /\ x /= y
    /\ {x, y} \subseteq stor.live
    /\ LET apply(r) ==
               stor' = [stor EXCEPT !.s[x] = r.self, !.s[y] = r.other, !.ops = @ + 1,
                                    !.done = @ \cup {IF stor.s[x].len = 0
                                                     THEN "append_swap"
                                                     ELSE "append_copy"}]
       IN apply(Storage_append(stor.s[x], stor.s[y]))
    /\ StorRest

StorClear(x) ==
    /\ StorStep
    /\ x \in stor.live
    /\ LET apply(r) ==
               stor' = [stor EXCEPT !.s[x] = r.storage,
                                    !.drops = Stor_count(@, r.dropped),
                                    !.ops = @ + 1, !.done = @ \cup {"clear"}]
       IN apply(Storage_clear(stor.s[x]))
    /\ StorRest

\* Drop for Storage: clear, then the allocation is freed; after a panic the
\* unwinding drops the storages too
StorDrop(x) ==
    /\ x \in stor.live
    /\ LET apply(r) ==
               stor' = [stor EXCEPT !.s[x] = Storage_new, !.live = @ \ {x},
                                    !.drops = Stor_count(@, r.dropped)]
       IN apply(Storage_clear(stor.s[x]))
    /\ StorRest

StorNext ==
    \/ \E x \in {"a", "b"} : StorPush(x)
    \/ \E x \in {"a", "b"}, slot \in 0 .. MaxStorValues - 1 : StorSwapRemove(x, slot)
    \/ \E x \in {"a", "b"}, y \in {"a", "b"} : StorAppend(x, y)
    \/ \E x \in {"a", "b"} : StorClear(x)
    \/ \E x \in {"a", "b"} : StorDrop(x)

SpecStor == StorInit /\ [][StorNext]_vars

(***************************************************************************)
(* Entity ids built from parts and taken apart again, for two triples of   *)
(* index, generation and namespace.                                        *)
(***************************************************************************)
\* the indices tried: small ones, the one of the test, those around the 24
\* bits the id keeps and the largest one from_parts accepts
IdIndices == {1, 2, 23298, 16777215, 16777216, 16777217, 2147483646}
IdGenerations == {0, 30, 65535}
IdNamespaces == {0, 1, 255}
IdParts == IdIndices \X IdGenerations \X IdNamespaces


IdsInit ==
    /\ WInit /\ StInit /\ CLInit0 /\ QueryInit /\ XInit
    /\ ticks = Ticks_none
    /\ sub = Sub_none
    /\ efetch = EFetch_none
    /\ sched = Sched_none
    /\ eid \in [phase : {"parts"}, a : IdParts, b : IdParts]

IdsRest ==
    UNCHANGED <<entities, archetypes, change_tick, drops, spawned, panicked, last,
                world_ops, sthist, clvars, queries, borrow, q_last, q_ops,
                q_written, batches, exec, refs, topo, stor, ticks, sub, efetch, sched>>

\* Entity::from_parts(a), Entity::from_parts(b)
IdsFromParts ==
    /\ eid.phase = "parts"
    /\ eid' = [phase |-> "eid", a |-> eid.a, b |-> eid.b,
               ea |-> Entity_from_parts_bits(eid.a[1], eid.a[2], eid.a[3]),
               eb |-> Entity_from_parts_bits(eid.b[1], eid.b[2], eid.b[3])]
    /\ IdsRest

\* a.into_parts()
IdsIntoParts ==
    /\ eid.phase = "eid"
    /\ ~eid.ea.panicked
    /\ eid' = [eid EXCEPT !.phase = "back"] @@ [back |-> Entity_into_parts(eid.ea.bits)]
    /\ IdsRest

IdsNext == IdsFromParts \/ IdsIntoParts

SpecIds == IdsInit /\ [][IdsNext]_vars

(***************************************************************************)
(* A schedule of NumSchedSystems systems with any accesses, batched and    *)
(* then executed batch by batch.                                           *)
(***************************************************************************)
basevars == <<entities, archetypes, change_tick, drops, spawned, panicked, last,
              world_ops, sthist, clvars, queries, borrow, q_last, q_ops,
              q_written, batches, exec, refs, topo, stor>>

SchedInit ==
    /\ WInit /\ StInit /\ CLInit0 /\ QueryInit /\ XInit
    /\ eid = Ids_none
    /\ ticks = Ticks_none
    /\ sub = Sub_none
    /\ efetch = EFetch_none
    /\ sched \in [phase : {"declared"},
                  acc : [1 .. NumSchedSystems -> SchedAccessSets]]

\* Schedule::batch_info
SchedBatch ==
    /\ sched.phase = "declared"
    /\ sched' = [phase |-> "batched", acc |-> sched.acc,
                 batches |-> Schedule_batch_in(sched.acc, <<>>, 1),
                 ran |-> <<>>]
    /\ UNCHANGED <<basevars, eid, ticks, sub, efetch>>

\* execute_seq: the next batch runs once the batch before it has ended
SchedRunBatch ==
    /\ sched.phase = "batched"
    /\ Len(sched.ran) < Len(sched.batches)
    /\ sched' = [sched EXCEPT !.ran = Append(@, sched.batches[Len(sched.ran) + 1])]
    /\ UNCHANGED <<basevars, eid, ticks, sub, efetch>>

SchedNext == SchedBatch \/ SchedRunBatch

SpecSched == SchedInit /\ [][SchedNext]_vars

(***************************************************************************)
(* An Entity id as a fetch (src/filter/constant.rs): the query by id run   *)
(* over a world built by any sequence of World operations.                 *)
(***************************************************************************)
\* Fetch::filter_arch for Entity: the archetype is the one of the location
Entity_filter_arch(w, arch_id, id) ==
    IF IsSome(EntityStore_get(w.entities, id))
    THEN arch_id = Unwrap(EntityStore_get(w.entities, id)).archetype
    ELSE FALSE

\* Fetch::prepare for Entity: a PreparedEntity [slot, id] for the archetype
\* of the location, None for every other archetype and for an id without one
Entity_prepare(w, arch_id, id) ==
    IF IsSome(EntityStore_get(w.entities, id))
       /\ arch_id = Unwrap(EntityStore_get(w.entities, id)).archetype
    THEN Some([slot |-> Unwrap(EntityStore_get(w.entities, id)).slot, id |-> id])
    ELSE None

\* PreparedEntity::filter_slots
PreparedEntity_filter_slots(p, slots) ==
    IF Slice_contains(slots, p.slot)
    THEN Slice_single(p.slot)
    ELSE Slice_new(slots.end, slots.end)

\* PreparedEntity::create_chunk: [panicked, chunk]; the assertion wants a
\* slice that starts and ends at the slot
PreparedEntity_create_chunk(p, slots) ==
    IF slots.start = p.slot /\ slots.end = p.slot
    THEN [panicked |-> FALSE, chunk |-> Some(p.id)]
    ELSE [panicked |-> TRUE, chunk |-> None]

\* PreparedEntity::fetch_next
PreparedEntity_fetch_next(chunk) == chunk

\* the chunks of one prepared archetype from pos on: filter_slots on the rest
\* of the slots, create_chunk on every slice that is not empty and
\* fetch_next once per slot of it: [panicked, narrowed, yielded]
RECURSIVE PreparedEntity_chunks(_, _, _)
PreparedEntity_chunks(p, pos, len) ==
    LET rest(chunk, c) ==
            IF c.panicked
            THEN [panicked |-> TRUE, narrowed |-> <<chunk>>, yielded |-> <<>>]
            ELSE LET r == PreparedEntity_chunks(p, chunk.end, len)
                 IN [panicked |-> r.panicked,
                     narrowed |-> <<chunk>> \o r.narrowed,
                     yielded |-> [k \in 1 .. chunk.end - chunk.start |->
                                     PreparedEntity_fetch_next(Unwrap(c.chunk))]
                                     \o r.yielded]
        next(chunk) ==
            IF Slice_is_empty(chunk)
            THEN [panicked |-> FALSE, narrowed |-> <<>>, yielded |-> <<>>]
            ELSE rest(chunk, PreparedEntity_create_chunk(p, chunk))
    IN next(PreparedEntity_filter_slots(p, Slice_new(pos, len)))

\* the query by id run over the archetypes from the k-th on
RECURSIVE Entity_query(_, _, _)
Entity_query(w, id, k) ==
    IF k > Len(w.archetypes)
    THEN [panicked |-> FALSE, narrowed |-> <<>>, yielded |-> <<>>]
    ELSE IF ~Entity_filter_arch(w, k - 1, id) \/ Entity_prepare(w, k - 1, id) = None
    THEN Entity_query(w, id, k + 1)
    ELSE LET here == PreparedEntity_chunks(Unwrap(Entity_prepare(w, k - 1, id)), 0,
                                           Archetype_len(World_archetype(w.archetypes, k - 1)))
         IN IF here.panicked THEN here
            ELSE LET r == Entity_query(w, id, k + 1)
                 IN [panicked |-> r.panicked,
                     narrowed |-> here.narrowed \o r.narrowed,
                     yielded |-> here.yielded \o r.yielded]

qbase == <<queries, borrow, q_last, q_ops, q_written, batches, exec, refs, topo, stor>>

\* Query::new(id) borrowed and iterated to the end
EFetchRun(id) ==
    /\ ~panicked
    /\ efetch.phase = "none"
    /\ LET ran(r) ==
               efetch' = [phase |-> "ran", id |-> id,
                          alive |-> World_is_alive(world, id),
                          loc |-> EntityStore_get(entities, id),
                          panicked |-> r.panicked,
                          narrowed |-> r.narrowed,
                          yielded |-> r.yielded]
       IN ran(Entity_query(world, id, 1))
    /\ UNCHANGED <<wvars, stvars, clvars, qbase, eid, ticks, sub, sched>>

EFetchNext ==
    \/ efetch.phase = "none" /\ Next
    \/ \E id \in spawned : EFetchRun(id)

SpecEFetch == Init /\ [][EFetchNext]_vars

(***************************************************************************)
(* A FilterSubscriber (src/events.rs) registered on the empty World and    *)
(* called by the World on every spawn, migration and despawn. The filter   *)
(* is static: the components an archetype must and must not have.          *)
(***************************************************************************)
SubFilters ==
    {Fetch_new({}, {}, w, wo, {}, <<>>) :
        w \in {{}, {1}}, wo \in {{}, {2}}}

\* StaticFilter::static_matches
StaticFilter_static_matches(filter, arch) == Fetch_filter_arch(filter, arch)

ArchetypeEvent_Inserted(id) == [kind |-> "Inserted", id |-> id]
ArchetypeEvent_Removed(id) == [kind |-> "Removed", id |-> id]

\* FilterSubscriber::new
FilterSubscriber_new(filter) == [phase |-> "on", filter |-> filter, connected |-> TRUE, log |-> <<>>]

\* listener.on_event(event) returning keep, and the store to connected that
\* follows a refusal
FilterSubscriber_send(s, event, keep) ==
    [s EXCEPT !.log = Append(@, event), !.connected = IF keep THEN @ ELSE FALSE]

\* on_moved_to with the test of the source archetype left out
FilterSubscriber_on_moved_to_any(s, id, from, to, keep) ==
    IF StaticFilter_static_matches(s.filter, to)
    THEN FilterSubscriber_send(s, ArchetypeEvent_Inserted(id), keep)
    ELSE s

FilterSubscriber_on_moved_from(s, id, from, to, keep) ==
    IF StaticFilter_static_matches(s.filter, from)
       /\ ~StaticFilter_static_matches(s.filter, to)
    THEN FilterSubscriber_send(s, ArchetypeEvent_Removed(id), keep)
    ELSE s

FilterSubscriber_on_moved_to(s, id, from, to, keep) ==
    IF ~StaticFilter_static_matches(s.filter, from)
       /\ StaticFilter_static_matches(s.filter, to)
    THEN FilterSubscriber_send(s, ArchetypeEvent_Inserted(id), keep)
    ELSE s

FilterSubscriber_on_spawned(s, id, arch, keep) ==
    IF StaticFilter_static_matches(s.filter, arch)
    THEN FilterSubscriber_send(s, ArchetypeEvent_Inserted(id), keep)
    ELSE s

FilterSubscriber_on_despawned(s, id, arch, keep) ==
    IF StaticFilter_static_matches(s.filter, arch)
    THEN FilterSubscriber_send(s, ArchetypeEvent_Removed(id), keep)
    ELSE s

\* the archetype of a live id in a world
ArchetypeOf(w, id) ==
    World_archetype(w.archetypes, Unwrap(EntityStore_get(w.entities, id)).archetype)

\* the World after a migration of id tells the subscriber of the archetype
\* left and then the subscriber of the archetype entered; an operation that
\* did not move the entity tells nothing
World_notify_moved(s, before, after, id, keep) ==
    IF /\ World_is_alive(before, id)
       /\ World_is_alive(after, id)
       /\ Unwrap(EntityStore_get(before.entities, id)).archetype
              /= Unwrap(EntityStore_get(after.entities, id)).archetype
    THEN FilterSubscriber_on_moved_to(
             FilterSubscriber_on_moved_from(s, id, ArchetypeOf(before, id),
                                            ArchetypeOf(after, id), keep),
             id, ArchetypeOf(before, id), ArchetypeOf(after, id), keep)
    ELSE s

world_after == [entities |-> entities', archetypes |-> archetypes']

SubInit ==
    /\ WInit /\ StInit /\ CLInit0 /\ QueryInit /\ XInit
    /\ eid = Ids_none
    /\ ticks = Ticks_none
    /\ efetch = EFetch_none
    /\ sched = Sched_none
    /\ sub \in {FilterSubscriber_new(f) : f \in SubFilters}

SubRest == UNCHANGED <<qbase, eid, ticks, efetch, sched>>

SubSpawn(keep) ==
    /\ sub.connected
    /\ Spawn
    /\ sub' = FilterSubscriber_on_spawned(sub, last'.id, ArchetypeOf(world_after, last'.id), keep)
    /\ SubRest

SubSpawnWith(buffer, keep) ==
    /\ sub.connected
    /\ SpawnWith(buffer)
    /\ sub' = FilterSubscriber_on_spawned(sub, last'.id, ArchetypeOf(world_after, last'.id), keep)
    /\ SubRest

SubInsert(id, component, value, keep) ==
    /\ sub.connected
    /\ Insert(id, component, value)
    /\ sub' = IF panicked' THEN sub
              ELSE World_notify_moved(sub, world, world_after, id, keep)
    /\ SubRest

SubRemove(id, component, keep) ==
    /\ sub.connected
    /\ Remove(id, component)
    /\ sub' = IF panicked' THEN sub
              ELSE World_notify_moved(sub, world, world_after, id, keep)
    /\ SubRest

SubDespawn(id, keep) ==
    /\ sub.connected
    /\ Despawn(id)
    /\ sub' = IF World_is_alive(world, id)
              THEN FilterSubscriber_on_despawned(sub, id, ArchetypeOf(world, id), keep)
              ELSE sub
    /\ SubRest

SubNext ==
    \/ \E keep \in BOOLEAN : SubSpawn(keep)
    \/ \E buffer \in Buffers, keep \in BOOLEAN : SubSpawnWith(buffer, keep)
    \/ \E id \in spawned, c \in ComponentIds, v \in Values, keep \in BOOLEAN :
           SubInsert(id, c, v, keep)
    \/ \E id \in spawned, c \in ComponentIds, keep \in BOOLEAN : SubRemove(id, c, keep)
    \/ \E id \in spawned, keep \in BOOLEAN : SubDespawn(id, keep)

SpecSub == SubInit /\ [][SubNext]_vars

(***************************************************************************)
(* The change ticks of three queries borrowed side by side over a World    *)
(* built by spawn_with: "changed" reads the first component where it was   *)
(* modified, "writer" fetches it mutably (src/fetch/component_mut.rs) and  *)
(* "maybe" fetches it as MaybeMut (src/fetch/maybe_mut.rs). Every borrow   *)
(* is iterated once before it is dropped.                                  *)
(***************************************************************************)
TickParties == {"changed", "writer", "maybe"}

TickFetch ==
    [p \in TickParties |->
        CASE p = "changed" -> Fetch_new({1}, {}, {}, {}, {1}, <<>>)
          [] p = "writer" -> Fetch_new({}, {1}, {}, {}, {}, <<>>)
          [] p = "maybe" -> Fetch_new({}, {}, {1}, {}, {}, <<>>)]

\* Fetch::MUTABLE: true for Mutable, false for MaybeMut and for a component
\* read under a change filter
Fetch_MUTABLE == [p \in TickParties |-> p = "writer"]

\* the guard on the column a prepared fetch keeps until the borrow is
\* dropped: the write guard of Mutable, the read guard of a component read,
\* none for MaybeMut, which keeps a reference to the Cell only
Fetch_guard == [p \in TickParties |->
                   CASE p = "changed" -> "read" [] p = "writer" -> "write"
                     [] p = "maybe" -> "none"]

\* Cell::get_mut(arch, slot, new_tick): a Modified change of the slot at the tick
Cell_get_mut(arch, component, slot, new_tick) ==
    [arch EXCEPT !.cells[component].modified =
        ChangeList_set(@, Change_modified(Slice_single(slot), new_tick))]

\* MutGuard::read: Cell::get(slot), which changes nothing
MutGuard_read(archs, loc) == archs

\* MutGuard::write: Cell::get_mut(arch, slot, new_tick)
MutGuard_write(archs, loc, new_tick) ==
    [archs EXCEPT ![loc.archetype + 1] = Cell_get_mut(@, 1, loc.slot, new_tick)]

\* the first query has no run behind it and nothing is owed to it
Ticks_new ==
    [phase |-> "on",
     last_run |-> [p \in TickParties |-> 0],
     held |-> [p \in TickParties |-> None],
     borrows |-> 0,
     last |-> [op |-> "new"],
     since |-> {},
     owed |-> {},
     epoch |-> [state |-> "none", read |-> {}, written |-> {}]]

TicksInit ==
    /\ WInit /\ StInit /\ CLInit0 /\ QueryInit /\ XInit
    /\ eid = Ids_none
    /\ sub = Sub_none
    /\ efetch = EFetch_none
    /\ sched = Sched_none
    /\ ticks = Ticks_new

TicksRest == UNCHANGED <<qbase, eid, sub, efetch, sched>>

\* the World is built before the first borrow is taken
TicksWorld ==
    /\ ticks.borrows = 0
    /\ world_ops < MaxTickWorldOps
    /\ ticks' = ticks
    /\ TicksRest

\* the guards held on the column of the first component by the other queries
TicksGuards(p) ==
    {Fetch_guard[o] : o \in {o \in TickParties \ {p} :
                                 /\ ticks.held[o] /= None
                                 /\ Unwrap(ticks.held[o]).prepared /= <<>>}}

\* a guard wanted while the others are held: a read guard beside a write
\* guard and a write guard beside any guard are refused
TicksRefused(p, wanted) ==
    \/ wanted = "read" /\ "write" \in TicksGuards(p)
    \/ wanted = "write" /\ TicksGuards(p) \cap {"read", "write"} /= {}

\* what an operation of a query other than "changed" does to the epoch
TicksDisturb(p, e) ==
    IF p = "maybe" /\ e.state = "clean" THEN e
    ELSE [state |-> "dirty", read |-> {}, written |-> {}]

\* Query::borrow: the tick of the World is taken as new_tick, after it was
\* advanced when the fetch is MUTABLE
TicksBorrow(p) ==
    /\ ~panicked
    /\ ticks.held[p] = None
    /\ ticks.borrows < MaxTickBorrows
    /\ LET tick == IF Fetch_MUTABLE[p] THEN change_tick + 1 ELSE change_tick
           b == [iterated |-> FALSE, yielded |-> <<>>, read |-> {}, written |-> {}]
                    @@ QueryBorrow_new(TickFetch[p],
                                       Planar_update_state(archetypes, TickFetch[p]),
                                       ticks.last_run[p], tick)
       IN /\ change_tick' = tick
          /\ ticks' = [ticks EXCEPT
                 !.held[p] = Some(b),
                 !.borrows = @ + 1,
                 !.last = [op |-> "borrow", p |-> p],
                 !.owed = IF p = "changed" THEN ticks.owed \cup ticks.since ELSE @,
                 !.since = IF p = "changed" THEN {} ELSE @,
                 !.epoch = IF p = "changed"
                           THEN IF @.state = "clean" THEN @
                                ELSE IF \A o \in TickParties : ticks.held[o] = None
                                THEN [state |-> "quiet", read |-> {}, written |-> {}]
                                ELSE [state |-> "dirty", read |-> {}, written |-> {}]
                           ELSE TicksDisturb(p, @)]
    /\ UNCHANGED <<entities, archetypes, drops, spawned, panicked, last, world_ops,
                   sthist, clvars>>
    /\ TicksRest

\* QueryBorrow::iter run to its end: the archetypes are prepared, which
\* takes the guards of the fetch and panics when one is refused; a Mutable
\* fetch sets every chunk as visited at new_tick
TicksIter(p) ==
    /\ ~panicked
    /\ ticks.held[p] /= None
    /\ ~Unwrap(ticks.held[p]).iterated
    /\ LET b == Unwrap(ticks.held[p])
           ran(r) ==
               IF r.borrow.prepared /= <<>> /\ TicksRefused(p, Fetch_guard[p])
               THEN /\ panicked' = TRUE
                    /\ archetypes' = archetypes
                    /\ ticks' = [ticks EXCEPT !.last = [op |-> "refused", p |-> p]]
               ELSE /\ panicked' = panicked
                    /\ archetypes' = r.archetypes
                    /\ ticks' = [ticks EXCEPT
                           !.held[p] = Some([r.borrow EXCEPT !.iterated = TRUE,
                                                             !.yielded = r.yielded]),
                           !.last = [op |-> "iter", p |-> p, yielded |-> r.yielded,
                                     owed |-> ticks.owed, epoch |-> ticks.epoch],
                           !.owed = IF p = "changed" THEN {} ELSE @,
                           !.since = IF p = "changed" THEN @ \ RangeOf(r.yielded)
                                     ELSE IF p = "writer" THEN @ \cup RangeOf(r.yielded)
                                     ELSE @,
                           !.epoch = IF p = "changed"
                                     THEN IF @.state = "clean"
                                          THEN [state |-> "dirty", read |-> {}, written |-> {}]
                                          ELSE @
                                     ELSE TicksDisturb(p, @)]
       IN ran(QueryBorrow_iter(b, archetypes))
    /\ UNCHANGED <<entities, change_tick, drops, spawned, last, world_ops, sthist, clvars>>
    /\ TicksRest

\* read() on the guard the MaybeMut query yielded for id
TicksRead(id) ==
    /\ ~panicked
    /\ ticks.held["maybe"] /= None
    /\ id \in RangeOf(Unwrap(ticks.held["maybe"]).yielded)
    /\ id \notin Unwrap(ticks.held["maybe"]).read
    /\ LET loc == Unwrap(EntityStore_get(entities, id))
       IN IF TicksRefused("maybe", "read")
          THEN /\ panicked' = TRUE
               /\ archetypes' = archetypes
               /\ ticks' = [ticks EXCEPT !.last = [op |-> "refused", p |-> "maybe"]]
          ELSE /\ panicked' = panicked
               /\ archetypes' = MutGuard_read(archetypes, loc)
               /\ ticks' = [ticks EXCEPT
                      !.held["maybe"] = Some([Unwrap(@) EXCEPT !.read = @ \cup {id}]),
                      !.last = [op |-> "read", id |-> id, loc |-> loc],
                      !.epoch = [TicksDisturb("maybe", @) EXCEPT !.read = @ \cup {id}]]
    /\ UNCHANGED <<entities, change_tick, drops, spawned, last, world_ops, sthist, clvars>>
    /\ TicksRest

\* write() on the guard the MaybeMut query yielded for id
TicksWrite(id) ==
    /\ ~panicked
    /\ ticks.held["maybe"] /= None
    /\ id \in RangeOf(Unwrap(ticks.held["maybe"]).yielded)
    /\ id \notin Unwrap(ticks.held["maybe"]).written
    /\ LET loc == Unwrap(EntityStore_get(entities, id))
           b == Unwrap(ticks.held["maybe"])
       IN IF TicksRefused("maybe", "write")
          THEN /\ panicked' = TRUE
               /\ archetypes' = archetypes
               /\ ticks' = [ticks EXCEPT !.last = [op |-> "refused", p |-> "maybe"]]
          ELSE /\ panicked' = panicked
               /\ archetypes' = MutGuard_write(archetypes, loc, b.new_tick)
               /\ ticks' = [ticks EXCEPT
                      !.held["maybe"] = Some([Unwrap(@) EXCEPT !.written = @ \cup {id}]),
                      !.last = [op |-> "write", id |-> id, loc |-> loc,
                                new_tick |-> b.new_tick],
                      !.epoch = [TicksDisturb("maybe", @) EXCEPT !.written = @ \cup {id}]]
    /\ UNCHANGED <<entities, change_tick, drops, spawned, last, world_ops, sthist, clvars>>
    /\ TicksRest

\* the borrow is dropped after its run: its guards are released and the
\* query keeps new_tick as the tick of its last run
TicksRelease(p) ==
    /\ ~panicked
    /\ ticks.held[p] /= None
    /\ Unwrap(ticks.held[p]).iterated
    /\ ticks' = [ticks EXCEPT
           !.last_run[p] = Unwrap(ticks.held[p]).new_tick,
           !.held[p] = None,
           !.last = [op |-> "release", p |-> p],
           !.epoch = IF p = "changed"
                     THEN IF @.state = "quiet"
                          THEN [state |-> "clean", read |-> {}, written |-> {}]
                          ELSE [state |-> "dirty", read |-> {}, written |-> {}]
                     ELSE TicksDisturb(p, @)]
    /\ UNCHANGED <<wvars, stvars, clvars>>
    /\ TicksRest

TicksNext ==
    \/ \E buffer \in Buffers : SpawnWith(buffer) /\ TicksWorld
    \/ \E p \in TickParties : TicksBorrow(p)
    \/ \E p \in TickParties : TicksIter(p)
    \/ \E id \in spawned : TicksRead(id)
    \/ \E id \in spawned : TicksWrite(id)
    \/ \E p \in TickParties : TicksRelease(p)

SpecTicks == TicksInit /\ [][TicksNext]_vars

(***************************************************************************)
(* Properties.                                                             *)
(***************************************************************************)
LocationOf(w, id) == Unwrap(EntityStore_get(w.entities, id))

\* C1: after any sequence of spawn, spawn_with and insert, migrations with
\* a swapped entity included, no operation has panicked and every live id's
\* stored location (archetype, slot) names a slot of an existing archetype
\* whose entity column holds that id there.
C1_LocationsConsistent ==
    last.only_spawn_insert =>
        /\ ~panicked
        /\ \A id \in spawned :
              World_is_alive(world, id) =>
                  /\ LocationOf(world, id).archetype < Len(archetypes)
                  /\ Archetype_entity(
                         World_archetype(archetypes, LocationOf(world, id).archetype),
                         LocationOf(world, id).slot) = Some(id)

\* an insert migrated an entity and another entity slid into the slot it left
C1_Witness ==
    /\ last.op = "insert" /\ last.only_spawn_insert /\ IsSome(last.swapped)
    /\ World_is_alive(world, last.id) /\ World_is_alive(world, Unwrap(last.swapped))
    /\ LocationOf(world, Unwrap(last.swapped)).archetype
           /= LocationOf(world, last.id).archetype

(***************************************************************************)
(* C2, C3: the entity store on its own (SpecStore).                        *)
(***************************************************************************)
StaleIndex == Entity_index(Unwrap(st_stale))

C2_LiveAreAlive == \A id \in st_live : World_is_alive_in(entities, id)

\* a despawn changes neither is_alive nor the location of any other id
C2_DespawnFrame ==
    st_last.op = "despawn" =>
        \A o \in (st_live \cup {Unwrap(st_stale)}) \ {st_last.id} :
            /\ World_is_alive_in(entities, o) = World_is_alive_in(st_last.entities, o)
            /\ EntityStore_get(entities, o) = EntityStore_get(st_last.entities, o)

C4_InsertNew ==
    [][(last'.op = "insert" /\ last'.alive /\ ~last'.had) =>
          /\ ~panicked'
          /\ World_get(world', last'.id, last'.component) = Some(last'.value)
          /\ \A d \in ComponentIds \ {last'.component} :
                /\ World_get(world', last'.id, d) = World_get(world, last'.id, d)
                /\ World_has(world', last'.id, d) = World_has(world, last'.id, d)
          /\ \A o \in spawned \ {last'.id} : \A d \in ComponentIds :
                World_get(world', o, d) = World_get(world, o, d)]_vars

\* C5: despawn of a live entity with n components takes it out of its
\* archetype (one entity fewer, the id in no entity column), drops its n
\* values and records a Removed change for each at the tick of the despawn.
C5_DespawnRemoves ==
    [][(last'.op = "despawn" /\ last'.alive) =>
          LET loc == LocationOf(world, last'.id)
              src == World_archetype(archetypes, loc.archetype)
              after == World_archetype(archetypes', loc.archetype)
          IN /\ Len(after.entities) = Len(src.entities) - 1
             /\ \A k \in DOMAIN archetypes' : last'.id \notin RangeOf(archetypes'[k].entities)
             /\ drops' = drops + Cardinality(DOMAIN src.cells)
             /\ \A c \in DOMAIN src.cells :
                   \E k \in DOMAIN after.cells[c].removed :
                       after.cells[c].removed[k].tick = change_tick']_vars

\* C6: insert of a component the live entity already has: the value is
\* overwritten, the entity stays in its archetype, no archetype is created,
\* and a Modified change is recorded for the component at the entity's slot.
C6_InsertExisting ==
    [][(last'.op = "insert" /\ last'.alive /\ ~panicked' /\ last'.had) =>
          LET loc == LocationOf(world, last'.id)
          IN /\ World_get(world', last'.id, last'.component) = Some(last'.value)
             /\ LocationOf(world', last'.id) = loc
             /\ Len(archetypes') = Len(archetypes)
             /\ \E k \in DOMAIN World_archetype(archetypes', loc.archetype)
                                    .cells[last'.component].modified :
                   Slice_contains(World_archetype(archetypes', loc.archetype)
                                      .cells[last'.component].modified[k].slice,
                                  loc.slot)]_vars

C8_ColumnLengths ==
    \A k \in DOMAIN archetypes : \A c \in DOMAIN archetypes[k].cells :
        Len(archetypes[k].cells[c].storage) = Len(archetypes[k].entities)

\* a remove migrated an entity between two archetypes that hold columns
C8_Witness ==
    /\ last.op = "remove" /\ last.result = "Ok"
    /\ World_is_alive(world, last.id)
    /\ \E d \in ComponentIds : World_has(world, last.id, d)

(***************************************************************************)
(* C9, C10: the change list on its own (SpecCL).                           *)
(***************************************************************************)
\* C9: after any sequence of set, remove, migrate_to and swap_out the
\* entries are in ascending order of slice.start (assert_ordered holds).
C9_Ordered == ChangeList_ordered(cl_a) /\ ChangeList_ordered(cl_b)

\* C10: after any sequence of set calls no two entries have overlapping
\* slices.
C10_Disjoint ==
    cl_last.only_set =>
        \A i \in DOMAIN cl_a : \A j \in DOMAIN cl_a :
            i < j => \/ cl_a[i].slice.end <= cl_a[j].slice.start
                     \/ cl_a[j].slice.end <= cl_a[i].slice.start

\* the slots covered by some entry of a change list
ChangeList_covered(inner) ==
    {slot \in Slots : \E i \in DOMAIN inner : Slice_contains(inner[i].slice, slot)}

\* C11: in a history of set calls only, a set never uncovers a slot: every
\* slot covered before the call, and every slot of the change that was set,
\* is covered by an entry afterwards.
C11_SetKeepsCovered ==
    [][(cl_last'.op = "set" /\ cl_last'.only_set) =>
           \A slot \in Slots :
               (slot \in ChangeList_covered(cl_a) \/ Slice_contains(cl_last'.slice, slot))
                   => slot \in ChangeList_covered(cl_a')]_vars

\* a set call, in a history of set calls only, has clipped an older entry and
\* has added the slots of its own slice
C11_Witness ==
    /\ cl_last.op = "set"
    /\ cl_last.only_set
    /\ \E i \in DOMAIN cl_last.a :
           /\ cl_last.a[i].tick < cl_last.tick
           /\ \E slot \in Slots : /\ Slice_contains(cl_last.a[i].slice, slot)
                                  /\ Slice_contains(cl_last.slice, slot)
    /\ ChangeList_covered(cl_last.a) \subseteq ChangeList_covered(cl_a)

\* C12: after any sequence of set calls no two entries of the same tick have
\* adjacent or overlapping slices, whichever of the two was set first.
C12_Coalesced ==
    cl_last.only_set =>
        \A i \in DOMAIN cl_a : \A j \in DOMAIN cl_a :
            (i # j /\ cl_a[i].tick = cl_a[j].tick)
                => \/ cl_a[i].slice.end < cl_a[j].slice.start
                   \/ cl_a[j].slice.end < cl_a[i].slice.start

(***************************************************************************)
(* Queries: change detection.                                              *)
(***************************************************************************)
\* the entities of the world that hold the component now
Holders(w, component) ==
    {id \in spawned : World_is_alive(w, id) /\ World_has(w, id, component)}

\* C13: a run of the query filtered on modified(c) that follows a mutation of
\* c of id through World::get_mut yields id, and a run that no mutation
\* precedes since the run before yields no entity.
C13_ModifiedAfterGetMut ==
    (q_last.op = "iter" /\ q_last.q = "changed") =>
        /\ \A id \in q_written.get_mut \cap Holders(world, 1) :
               id \in RangeOf(q_last.yielded)
        /\ q_written.any = {} => q_last.yielded = <<>>

\* C14: the first run of the query filtered on modified(c) yields every
\* entity that holds c, and a later run yields no entity whose c was not
\* written since the run before.
C14_FirstRunAllLaterRunsWritten ==
    (q_last.op = "iter" /\ q_last.q = "changed") =>
        IF Unwrap(borrow).first
        THEN Holders(world, 1) \subseteq RangeOf(q_last.yielded)
        ELSE RangeOf(q_last.yielded) \subseteq q_written.any

\* the step is the iteration of a borrow of the query
IterStep(q) ==
    /\ borrow /= None
    /\ borrow' /= None
    /\ Unwrap(borrow).q = q
    /\ ~Unwrap(borrow).iterated
    /\ Unwrap(borrow').iterated

\* the ticks of the Modified changes of the component that cover the slot
ModifiedTicks(arch, component, slot) ==
    {arch.cells[component].modified[i].tick :
        i \in {j \in DOMAIN arch.cells[component].modified :
                   Slice_contains(arch.cells[component].modified[j].slice, slot)}}

\* the slot of the archetype lies in one of the chunks
InChunks(chunks, arch_id, slot) ==
    \E k \in DOMAIN chunks :
        chunks[k].arch = arch_id /\ Slice_contains(chunks[k].slice, slot)

\* C15: an iteration of the query that fetches c mutably under a slot filter
\* records a Modified change at the tick of the borrow for every slot of the
\* chunks it yields; the Modified changes of every other slot are as before,
\* and a slot that was rejected passes no modified(c) filter that has seen
\* the changes before the borrow.
C15_ModifiedExactlyYielded ==
    [][IterStep("mover") =>
          \A a \in DOMAIN archetypes :
              1 \in DOMAIN archetypes[a].cells =>
                  \A slot \in 0 .. Archetype_len(archetypes[a]) - 1 :
                      IF InChunks(q_last'.chunks, a - 1, slot)
                      THEN Unwrap(borrow).new_tick \in ModifiedTicks(archetypes'[a], 1, slot)
                      ELSE /\ ModifiedTicks(archetypes'[a], 1, slot)
                                  = ModifiedTicks(archetypes[a], 1, slot)
                           /\ Unwrap(borrow).new_tick \notin ModifiedTicks(archetypes[a], 1, slot)
                                  => ~Filter_slot(QueryFetch["changed"], archetypes'[a], slot,
                                                  Unwrap(borrow).new_tick - 1)]_vars

\* the mover yielded a chunk of an archetype and rejected another entity of it
C15_Witness ==
    /\ q_last.op = "iter"
    /\ q_last.q = "mover"
    /\ \E k \in DOMAIN q_last.chunks :
           \E slot \in 0 .. Archetype_len(World_archetype(archetypes, q_last.chunks[k].arch)) - 1 :
               /\ ~InChunks(q_last.chunks, q_last.chunks[k].arch, slot)
               /\ Unwrap(borrow).new_tick \notin
                      ModifiedTicks(World_archetype(archetypes, q_last.chunks[k].arch), 1, slot)

(***************************************************************************)
(* Queries: the archetypes visited.                                        *)
(***************************************************************************)
\* the archetypes of the world the fetch matches now
Matching(archs, fetch) ==
    {id \in 0 .. Len(archs) - 1 : Fetch_filter_arch(fetch, World_archetype(archs, id))}

\* C16: a borrow of a query visits exactly the archetypes of the world for
\* which filter_arch is true at the time of the borrow, those created after
\* an earlier run of the query included.
C16_BorrowVisitsMatching ==
    borrow /= None =>
        RangeOf(Unwrap(borrow).archetypes) = Matching(archetypes, Unwrap(borrow).fetch)

\* the entities of the archetype at the slots that pass the filter of the
\* borrow, slots ascending
PassingEntities(b, arch) ==
    LET passes(slot) == Filter_slot(b.fetch, arch, slot, b.old_tick)
        slots == SelectSeq([k \in 1 .. Archetype_len(arch) |-> k - 1], passes)
    IN [k \in DOMAIN slots |-> arch.entities[slots[k] + 1]]

\* the entities of the archetypes of the borrow from the k-th on, in the
\* order of the list of the strategy
RECURSIVE ExpectedYield(_, _, _)
ExpectedYield(b, archs, k) ==
    IF k > Len(b.archetypes) THEN <<>>
    ELSE PassingEntities(b, World_archetype(archs, b.archetypes[k]))
             \o ExpectedYield(b, archs, k + 1)

\* C17: an iteration of a borrow yields the entities of the archetypes of
\* the borrow once each, the archetypes in the order of the list of the
\* strategy and the slots ascending, whatever get calls the borrow served
\* before.
C17_IterOrder ==
    [][\A q \in QueryNames :
          IterStep(q) => q_last'.yielded = ExpectedYield(Unwrap(borrow), archetypes, 1)]_vars

(***************************************************************************)
(* Queries: random access.                                                 *)
(***************************************************************************)
\* the step is a get call on the borrow
GetStep ==
    /\ borrow /= None
    /\ borrow' /= None
    /\ q_ops'.gets = q_ops.gets + 1

\* what get(id) is to return for the borrow in the world
ExpectedGet(b, w, id) ==
    IF ~World_is_alive(w, id) THEN "NotAlive"
    ELSE LET loc == LocationOf(w, id)
             arch == World_archetype(w.archetypes, loc.archetype)
         IN IF \E c \in Fetch_required(b.fetch) : ~Archetype_has(arch, c)
            THEN "MissingComponent"
            ELSE IF ~Fetch_filter_arch(b.fetch, arch) THEN "DoesNotMatch"
            ELSE IF ~Filter_slot(b.fetch, arch, loc.slot, b.old_tick) THEN "Filtered"
            ELSE "Ok"

\* C18: get(id) on a borrow returns NotAlive for an id that is not alive,
\* MissingComponent when the archetype of the entity lacks a component the
\* fetch requires, DoesNotMatch when the archetype is rejected with nothing
\* missing, Filtered when the slot filter rejects the slot and the item
\* otherwise; and a get that failed leaves the entities that an iteration
\* of the borrow yields as they were.
C18_GetResults ==
    [][GetStep =>
          /\ q_last'.result = ExpectedGet(Unwrap(borrow), world, q_last'.id)
          /\ q_last'.result /= "Ok" =>
                 RangeOf(QueryBorrow_iter(Unwrap(borrow'), archetypes').yielded)
                     = RangeOf(QueryBorrow_iter(Unwrap(borrow), archetypes).yielded)]_vars

(***************************************************************************)
(* The schedule.                                                           *)
(***************************************************************************)
\* the two systems hold accesses of one resource, one of them mutable
Conflicting(s, t, archs) ==
    \E a \in System_access(s, archs), b \in System_access(t, archs) :
        /\ <<a.kind, a.arch, a.component>> = <<b.kind, b.arch, b.component>>
        /\ a.mutable \/ b.mutable

\* the two systems are in one batch
SameBatch(batches_, s, t) ==
    \E k \in DOMAIN batches_ : {s, t} \subseteq RangeOf(batches_[k])

\* C19: batch_info returns a partitioning of the systems in which no two
\* systems of one batch hold conflicting accesses: accesses of the same
\* resource of which at least one is mutable.
C19_NoConflictInBatch ==
    q_last.op = "batch_info" =>
        /\ \A n \in DOMAIN Systems :
               Cardinality({<<k, i>> \in (DOMAIN batches) \X (DOMAIN Systems) :
                               i \in DOMAIN batches[k] /\ batches[k][i] = Systems[n]}) = 1
        /\ \A k \in DOMAIN batches : \A i \in DOMAIN batches[k], j \in DOMAIN batches[k] :
               i /= j => ~Conflicting(batches[k][i], batches[k][j], archetypes)

\* one batch holds two systems with accesses in the same archetype, one of
\* them mutable, and other systems had to be placed in later batches
C19_Witness ==
    /\ q_last.op = "batch_info"
    /\ Len(batches) >= 3
    /\ \E k \in DOMAIN batches : \E i \in DOMAIN batches[k], j \in DOMAIN batches[k] :
           /\ i /= j
           /\ \E a \in System_access(batches[k][i], archetypes),
                 b \in System_access(batches[k][j], archetypes) :
                  /\ a.kind = "Archetype" /\ b.kind = "Archetype"
                  /\ a.arch = b.arch
                  /\ a.mutable

\* C20: batch_info follows the world as it is at the call: the two systems
\* that fetch the first component mutably under different static filters
\* are in one batch if and only if no archetype of the world is matched by
\* both, so that they are separated once a set has created such an archetype.
C20_SameBatchIffDisjoint ==
    q_last.op = "batch_info" =>
        (SameBatch(batches, "blue", "red")
            <=> Matching(archetypes, SystemFetch["blue"])
                    \cap Matching(archetypes, SystemFetch["red"]) = {})

\* the two systems shared a batch at the call before, a set then created an
\* archetype that both match, and this call separates them
C20_Witness ==
    /\ q_last.op = "batch_info"
    /\ last.op = "insert"
    /\ SameBatch(q_last.before, "blue", "red")
    /\ Matching(archetypes, SystemFetch["red"]) /= {}
    /\ ~SameBatch(batches, "blue", "red")

\* the archetypes still in the graph that hold both components, with or
\* without entities: those the mutable queries of both systems match
SharedArchetypes(archs) ==
    {id \in 0 .. Len(archs) - 1 :
        /\ ~Archetype_is_pruned(World_archetype(archs, id))
        /\ {1, 2} \subseteq RangeOf(World_archetype(archs, id).components)}

\* the component values of every spawned entity
ComponentsOf(w) ==
    [id \in spawned |-> [c \in ComponentIds |-> World_get(w, id, c)]]

\* C21: an archetype matched by the mutable queries of two systems keeps them
\* in separate batches also once its last entity has migrated away, until
\* prune_archetypes removes it; prune_archetypes removes only empty
\* archetypes, every entity keeps its components over it, and when no shared
\* archetype is left batch_info puts the two systems in one batch again.
C21_SeparateUntilPruned ==
    [][/\ q_last'.op = "batch_info" =>
              (SameBatch(batches', "blue", "red") <=> SharedArchetypes(archetypes') = {})
       /\ (last'.op = "prune" /\ world_ops' /= world_ops) =>
              /\ ComponentsOf([entities |-> entities', archetypes |-> archetypes'])
                     = ComponentsOf(world)
              /\ \A id \in 0 .. Len(archetypes) - 1 :
                     Archetype_len(World_archetype(archetypes', id))
                         = Archetype_len(World_archetype(archetypes, id))
              /\ \A id \in SharedArchetypes(archetypes) :
                     (Archetype_len(World_archetype(archetypes, id)) = 0
                          /\ DOMAIN World_archetype(archetypes, id).add = {})
                         => id \notin SharedArchetypes(archetypes')]_vars

\* the shared archetype was empty and kept the systems apart at the call
\* before; it has been pruned while an entity still holds the first
\* component, and this call batches the two systems together
C21_Witness ==
    /\ q_last.op = "batch_info"
    /\ last.op = "prune"
    /\ last.count > 0
    /\ ~SameBatch(q_last.before, "blue", "red")
    /\ SameBatch(batches, "blue", "red")
    /\ Holders(world, 1) /= {}

\* the batches that hold the n-th declared system
BatchesOf(batches_, n) ==
    {k \in DOMAIN batches_ : Systems[n] \in RangeOf(batches_[k])}

\* the first declared system of the batch
Opener(batches_, k) ==
    CHOOSE n \in DOMAIN Systems :
        /\ k \in BatchesOf(batches_, n)
        /\ \A m \in 1 .. n - 1 : k \notin BatchesOf(batches_, m)

\* C22: the batches are a first-fit partition of the systems: every system
\* is in exactly one batch and once in it; a system conflicts with no system
\* declared before it in its batch, and every batch before its batch holds a
\* system declared before it that conflicts with it; the batches are in the
\* order in which they were opened.
C22_FirstFit ==
    q_last.op = "batch_info" =>
        /\ \A n \in DOMAIN Systems :
               /\ Cardinality(BatchesOf(batches, n)) = 1
               /\ \A k \in BatchesOf(batches, n) :
                      /\ Cardinality({i \in DOMAIN batches[k] : batches[k][i] = Systems[n]}) = 1
                      /\ \A m \in 1 .. n - 1 :
                             k \in BatchesOf(batches, m)
                                 => ~Conflicting(Systems[n], Systems[m], archetypes)
                      /\ \A j \in 1 .. k - 1 :
                             \E m \in 1 .. n - 1 :
                                 /\ j \in BatchesOf(batches, m)
                                 /\ Conflicting(Systems[n], Systems[m], archetypes)
        /\ \A k \in DOMAIN batches :
               /\ batches[k] /= <<>>
               /\ RangeOf(batches[k]) \subseteq RangeOf(Systems)
               /\ k > 1 => Opener(batches, k - 1) < Opener(batches, k)

\* a system has joined a batch older than the newest one: it is in a batch
\* before the batch of a system declared before it, with three batches open
C22_Witness ==
    /\ q_last.op = "batch_info"
    /\ Len(batches) >= 3
    /\ \E n \in DOMAIN Systems, m \in DOMAIN Systems :
           /\ m < n
           /\ \E k \in BatchesOf(batches, n), j \in BatchesOf(batches, m) :
                  /\ 1 < k
                  /\ k < j

\* the execution has seen a system return an error
ExecFailed(ex) == ex.phase /= "idle" /\ ex.errors /= <<>>

\* C23: once a system has returned an error during the execution of the
\* schedule, no system of a later batch runs, the world is never changed
\* again, so that the commands queued during the failing batch are never
\* applied, and the execution ends with the error of the system that failed
\* first.
C23_ErrorAborts ==
    [][ExecFailed(exec') =>
          /\ \A s \in DOMAIN exec'.ran :
                 exec'.ran[s].k <= exec'.ran[exec'.errors[1]].k
          /\ exec'.k = exec'.ran[exec'.errors[1]].k
          /\ UNCHANGED <<entities, archetypes>>
          /\ exec'.phase = "done" =>
                 /\ exec'.result = [tag |-> "Err", system |-> exec'.errors[1]]
                 /\ exec'.cmds = <<>>
                 /\ exec'.flushed = exec.flushed]_vars

\* two systems of the first batch have failed after a command was queued
\* that would have changed the world; the execution has ended with batches
\* left to run
C23_Witness ==
    /\ exec.phase = "done"
    /\ exec.result.tag = "Err"
    /\ Len(exec.errors) = 2
    /\ exec.k < Len(exec.batches)
    /\ exec.discarded /= <<>>
    /\ CommandBuffer_apply(world, exec.discarded) /= world

\* the command has taken effect in the world
Command_applied(w, cmd) ==
    IF cmd.op = "despawn" THEN ~World_is_alive(w, cmd.id)
    ELSE World_is_alive(w, cmd.id) =>
             World_get(w, cmd.id, cmd.component) = Some(cmd.value)

\* the system that runs in the step
Running(ex, ex2) == CHOOSE s \in ex.pending : s \notin ex2.pending

\* C24: the commands a system records are queued and do not change the
\* world while its batch runs, so that the query of a system of the same
\* batch sees the world as it was when the batch started; when the next
\* batch starts the buffer is empty, and every system of the next batch runs
\* in a world in which the commands of the batch before have been applied:
\* an entity given the first component by a command is seen by the systems
\* that query it.
C24_CommandsBetweenBatches ==
    [][/\ (exec.phase = "running" /\ exec'.phase = "running" /\ exec'.k /= exec.k) =>
              /\ exec'.cmds = <<>>
              /\ exec'.flushed = exec.cmds
              /\ exec'.k = exec.k + 1
       /\ (exec.phase = "running" /\ exec'.phase = "running"
              /\ exec'.pending /= exec.pending /\ exec'.k = exec.k) =>
              /\ UNCHANGED <<entities, archetypes>>
              /\ exec'.ran[Running(exec, exec')].saw
                     = System_sees(Running(exec, exec'), exec.start)
              /\ \A i \in DOMAIN exec.flushed :
                     /\ Command_applied(world, exec.flushed[i])
                     /\ (/\ exec.flushed[i].op = "set"
                         /\ exec.flushed[i].component = 1
                         /\ World_is_alive(world, exec.flushed[i].id)
                         /\ Running(exec, exec') \in {"red", "stats"})
                            => exec.flushed[i].id \in exec'.ran[Running(exec, exec')].saw]_vars

\* a command gave an entity the first component; the system that ran after
\* it in the same batch did not see the entity, the system of the next batch
\* saw it
C24_Witness ==
    /\ exec.phase /= "idle"
    /\ {"blue", "commands", "red"} \subseteq DOMAIN exec.ran
    /\ exec.ran["blue"].k = exec.ran["commands"].k
    /\ exec.ran["red"].k = exec.ran["commands"].k + 1
    /\ exec.ran["blue"].queued /= <<>>
    /\ \E id \in spawned :
           /\ exec.ran["blue"].queued[1] = Command_set(id, 1, MaxValue)
           /\ id \notin exec.ran["blue"].saw
           /\ id \in exec.ran["red"].saw
           /\ id \in System_sees("blue", world)

\* the borrows held of the cell
HeldOf(r, key) == {i \in DOMAIN r.held : r.held[i].cell = key}

\* C25: a mutable borrow of a cell is never held together with another
\* borrow of the same cell.  A get of a cell that is borrowed mutably and a
\* get_mut of a cell that is borrowed at all panic instead of being granted;
\* a get of a cell borrowed shared only and every borrow of a cell of which
\* no borrow is held are granted.
C25_MutableBorrowAlone ==
    [][/\ \A i \in DOMAIN refs'.held :
              refs'.held[i].mutable => HeldOf(refs', refs'.held[i].cell) = {i}
       /\ (refs'.last.op = "get" /\ refs' /= refs /\ refs'.last.cell /= None) =>
              LET key == Unwrap(refs'.last.cell)
                  conflict == \E i \in HeldOf(refs, key) :
                                  refs.held[i].mutable \/ refs'.last.mutable
              IN /\ conflict <=> refs'.last.result = "panic"
                 /\ conflict => (panicked' /\ refs'.held = refs.held)
                 /\ ~conflict =>
                        /\ ~panicked'
                        /\ refs'.held = Append(refs.held,
                                               [cell |-> key,
                                                mutable |-> refs'.last.mutable,
                                                id |-> refs'.last.id])]_vars

\* two shared borrows of one cell and a mutable borrow of another cell are
\* held together
C25_Witness ==
    /\ Len(refs.held) = 3
    /\ \E i, j, k \in DOMAIN refs.held :
           /\ i /= j
           /\ refs.held[i].cell = refs.held[j].cell
           /\ ~refs.held[i].mutable
           /\ ~refs.held[j].mutable
           /\ refs.held[k].mutable
           /\ refs.held[k].cell /= refs.held[i].cell

\* the archetypes reached from the archetype through one or more links
RECURSIVE TopoReach(_, _, _)
TopoReach(relations, frontier, seen) ==
    IF frontier \subseteq seen THEN seen
    ELSE TopoReach(relations,
                   UNION {RangeOf(relations[a]) : a \in frontier \ seen},
                   seen \cup frontier)

TopoAcyclic(relations) ==
    \A a \in TopoArchetypes : a \notin TopoReach(relations, RangeOf(relations[a]), {})

\* the first archetype is visited, the second is, and the first before it
TopoBefore(yielded, a, b) ==
    /\ \E i \in DOMAIN yielded, j \in DOMAIN yielded :
           yielded[i] = a /\ yielded[j] = b
    /\ \A i \in DOMAIN yielded, j \in DOMAIN yielded :
           (yielded[i] = a /\ yielded[j] = b) => i < j

\* C26: over an acyclic relation graph the topological strategy visits every
\* matched archetype after every matched archetype that holds one of its
\* relation targets, in whatever order the archetypes were discovered.
C26_ParentsFirst ==
    (topo.phase = "iterated" /\ TopoAcyclic(topo.relations)) =>
        \A a \in topo.matched :
            \A p \in RangeOf(topo.relations[a]) \cap topo.matched :
                TopoBefore(topo.yielded, p, a)

\* a chain of three matched archetypes discovered children first
C26_Witness ==
    /\ topo.phase = "iterated"
    /\ TopoAcyclic(topo.relations)
    /\ Len(topo.discovered) = 3
    /\ topo.discovered[2] \in RangeOf(topo.relations[topo.discovered[1]])
    /\ topo.discovered[3] \in RangeOf(topo.relations[topo.discovered[2]])
    /\ topo.yielded = <<topo.discovered[3], topo.discovered[2], topo.discovered[1]>>

\* C27: the update of the topological order ends for every relation graph,
\* with cycles and self relations too, and the order visits every matched
\* archetype exactly once and no other archetype.
C27_EveryMatchedOnce ==
    /\ [](topo.phase \in {"borrowed", "iterated"} =>
              /\ Len(topo.state.order) = Cardinality(topo.matched)
              /\ RangeOf(TopoBorrow_iter(topo.state)) = topo.matched)
    /\ [](topo.phase = "iterated" =>
              \A a \in topo.matched :
                  Cardinality({i \in DOMAIN topo.yielded : topo.yielded[i] = a}) = 1)
    /\ <>(topo.phase = "iterated")

\* three matched archetypes: one related to itself, two related to each other
C27_Witness ==
    /\ topo.phase = "iterated"
    /\ Len(topo.yielded) = 3
    /\ \E a \in topo.matched, b \in topo.matched, c \in topo.matched :
           /\ a /= b /\ a /= c /\ b /= c
           /\ a \in RangeOf(topo.relations[a])
           /\ b \in RangeOf(topo.relations[c])
           /\ c \in RangeOf(topo.relations[b])

\* the matched archetypes without and with relation targets
TopoRoots(t) == {a \in t.matched : t.relations[a] = <<>>}
TopoRelated(t) == {a \in t.matched : t.relations[a] /= <<>>}

\* the statement as made: every matched archetype without relation target
\* is visited before every matched archetype with a relation target
C28_RootsFirst_Original ==
    topo.phase = "iterated" =>
        \A r \in TopoRoots(topo), x \in TopoRelated(topo) :
            TopoBefore(topo.yielded, r, x)

\* C28: a matched archetype without relation target is visited before every
\* matched archetype that holds a relation target in it, in cyclic graphs
\* too, and before every matched archetype with relation targets when the
\* archetypes without targets are all discovered before those with targets.
C28_RootsBeforeDependents ==
    topo.phase = "iterated" =>
        /\ \A r \in TopoRoots(topo), x \in TopoRelated(topo) :
               r \in RangeOf(topo.relations[x]) => TopoBefore(topo.yielded, r, x)
        /\ (\A r \in TopoRoots(topo), x \in TopoRelated(topo) :
                TopoBefore(topo.discovered, r, x))
               => \A r \in TopoRoots(topo), x \in TopoRelated(topo) :
                      TopoBefore(topo.yielded, r, x)

\* an archetype without targets, discovered last, is visited after an
\* archetype whose targets are elsewhere and before the one related to it
C28_Witness ==
    /\ topo.phase = "iterated"
    /\ Len(topo.discovered) = 3
    /\ \E r \in TopoRoots(topo), x \in TopoRelated(topo), y \in TopoRelated(topo) :
           /\ topo.discovered = <<y, x, r>>
           /\ r \in RangeOf(topo.relations[x])
           /\ r \notin RangeOf(topo.relations[y])
           /\ topo.yielded = <<y, r, x>>

\* C29: a link through an archetype the fetch does not match constrains the
\* order: when matched A has a relation target in unmatched B and B has one
\* in matched C, C is visited before A; no unmatched archetype is visited.
C29_FallThrough ==
    (topo.phase = "iterated" /\ TopoAcyclic(topo.relations)) =>
        /\ RangeOf(topo.yielded) \subseteq topo.matched
        /\ \A a \in topo.matched, c \in topo.matched :
               \A b \in TopoArchetypes \ topo.matched :
                   (b \in RangeOf(topo.relations[a]) /\ c \in RangeOf(topo.relations[b]))
                       => TopoBefore(topo.yielded, c, a)

\* the capacity a storage reaches when every value is pushed into it
MaxStorCap == Max(NextPowerOfTwo(MaxStorValues), 4)

\* the number of slots below len, of the storages not yet dropped, that hold
\* the value
StorHeld(st, v) ==
    Cardinality({<<x, i>> \in st.live \X (1 .. MaxStorCap) :
                    i <= st.s[x].len /\ st.s[x].mem[i] = v})

\* C30: over every sequence of push, swap_remove with a dropping on_move,
\* append, clear and drop of the storages, the drop hook of a pushed value
\* has run once when the value is in no storage any more and not at all
\* while it is in one, where it is in one slot only; once the storages are
\* dropped it has run exactly once for every pushed value.
C30_DroppedOnce ==
    stor.phase = "live" =>
        /\ \A v \in 1 .. MaxStorValues :
               /\ v <= stor.pushed => stor.drops[v] + StorHeld(stor, v) = 1
               /\ v > stor.pushed => (stor.drops[v] = 0 /\ StorHeld(stor, v) = 0)
        /\ stor.live = {} => \A v \in 1 .. stor.pushed : stor.drops[v] = 1

\* three values were pushed, moved by an append into an empty storage and by
\* an append behind other values, one was removed by swap_remove, and both
\* storages have been dropped
C30_Witness ==
    /\ stor.phase = "live"
    /\ stor.live = {}
    /\ stor.pushed = MaxStorValues
    /\ {"append_swap", "append_copy", "swap_remove"} \subseteq stor.done

\* C31: for every index, generation and namespace from_parts accepts,
\* from_parts does not panic, into_parts returns the three parts, and two
\* different triples give different ids.
C31_RoundTrip ==
    /\ eid.phase \in {"eid", "back"} =>
           /\ ~eid.ea.panicked
           /\ (eid.a /= eid.b /\ ~eid.eb.panicked) => eid.ea.bits /= eid.eb.bits
    /\ eid.phase = "back" =>
           /\ ~eid.back.panicked
           /\ eid.back.parts = eid.a

\* the ticks of the entries of a change list that cover the slot
TicksAt(inner, slot) ==
    {inner[i].tick : i \in {j \in DOMAIN inner : Slice_contains(inner[j].slice, slot)}}

\* the newest of a set of ticks, none for none
Newest(ts) == IF ts = {} THEN {} ELSE {CHOOSE t \in ts : \A u \in ts : u <= t}

\* C33: over any sequence of set calls alone, a slot is covered after a set
\* by the newest tick of those that covered it before and of the change set
\* when its slice contains the slot, and by no other tick; so the tick of a
\* covered slot is the maximum over all changes set on it, also when a newer
\* change lies strictly inside an older entry.
C33_NewestWins ==
    [][(cl_last'.op = "set" /\ cl_last'.only_set) =>
          \A s \in Slots :
              TicksAt(cl_a', s) =
                  Newest(TicksAt(cl_a, s) \cup
                         (IF Slice_contains(cl_last'.slice, s)
                          THEN {cl_last'.tick} ELSE {}))]_vars

\* C34: after a.migrate_to(b, src, dst) list a has no entry covering src
\* and covers every other slot with the ticks it had; list b covers dst
\* with the newest of the tick a had at src and the tick b held at dst, and
\* every other slot with the ticks it had; when a did not cover src both
\* lists are as they were.
C34_MigrateMovesSlot ==
    [][cl_last'.op = "migrate_to" =>
          /\ TicksAt(cl_a', cl_last'.src) = {}
          /\ \A s \in Slots \ {cl_last'.src} : TicksAt(cl_a', s) = TicksAt(cl_a, s)
          /\ Newest(TicksAt(cl_b', cl_last'.dst)) =
                 Newest(TicksAt(cl_a, cl_last'.src) \cup TicksAt(cl_b, cl_last'.dst))
          /\ \A s \in Slots \ {cl_last'.dst} : TicksAt(cl_b', s) = TicksAt(cl_b, s)
          /\ TicksAt(cl_a, cl_last'.src) = {} => (cl_a' = cl_a /\ cl_b' = cl_b)]_vars

\* a slot covered by an older tick was migrated to a slot that the other
\* list covered with a newer tick already, and the newer tick is kept
C34_Witness ==
    /\ cl_last.op = "migrate_to"
    /\ TicksAt(cl_last.a, cl_last.src) /= {}
    /\ TicksAt(cl_last.b, cl_last.dst) /= {}
    /\ \A t \in TicksAt(cl_last.a, cl_last.src) :
           \A u \in TicksAt(cl_last.b, cl_last.dst) : t < u
    /\ TicksAt(cl_b, cl_last.dst) = TicksAt(cl_last.b, cl_last.dst)
    /\ TicksAt(cl_a, cl_last.src) = {}

\* the entries of a change list that cover the slot, cut to the slot
ChangesAt(inner, slot) ==
    LET covers(v) == Slice_contains(v.slice, slot)
        cut(list) == [i \in DOMAIN list |->
                         Change_new(Slice_single(slot), list[i].tick, list[i].kind)]
    IN cut(SelectSeq(inner, covers))

\* C35: after swap_out(src, dst) the slot src carries the tick dst had
\* before the call and is uncovered when dst was, dst is uncovered, every
\* other slot keeps its ticks, and the changes returned are the entries
\* that covered src before the call, cut to the slot src; with src = dst
\* the slot is uncovered afterwards.
C35_SwapOut ==
    [][cl_last'.op = "swap_out" =>
          /\ cl_last'.src /= cl_last'.dst =>
                 Newest(TicksAt(cl_a', cl_last'.src)) = Newest(TicksAt(cl_a, cl_last'.dst))
          /\ TicksAt(cl_a', cl_last'.dst) = {}
          /\ \A s \in Slots \ {cl_last'.src, cl_last'.dst} :
                 TicksAt(cl_a', s) = TicksAt(cl_a, s)
          /\ cl_last'.removed = ChangesAt(cl_a, cl_last'.src)
          /\ cl_last'.src = cl_last'.dst => TicksAt(cl_a', cl_last'.src) = {}]_vars

\* a swap_out of two slots covered by different ticks: src has the tick of
\* dst afterwards and the change of src was returned
C35_Witness ==
    /\ cl_last.op = "swap_out"
    /\ cl_last.src /= cl_last.dst
    /\ TicksAt(cl_last.a, cl_last.src) /= {}
    /\ TicksAt(cl_last.a, cl_last.dst) /= {}
    /\ TicksAt(cl_last.a, cl_last.src) /= TicksAt(cl_last.a, cl_last.dst)
    /\ TicksAt(cl_a, cl_last.src) = TicksAt(cl_last.a, cl_last.dst)
    /\ cl_last.removed /= <<>>

\* the position in the execution of the batch that ran the system, 0 before
SchedRanAt(s) ==
    IF \E k \in DOMAIN sched.ran : s \in RangeOf(sched.ran[k])
    THEN CHOOSE k \in DOMAIN sched.ran : s \in RangeOf(sched.ran[k])
    ELSE 0

\* the pairs of systems in conflict, the first declared before the second
SchedOrderedConflicts ==
    {p \in (1 .. NumSchedSystems) \X (1 .. NumSchedSystems) :
        p[1] < p[2] /\ Schedule_conflicts_in(sched.acc, p[1], p[2])}

SchedDone == sched.phase = "batched" /\ Len(sched.ran) = Len(sched.batches)

\* C37 as stated: of two systems in conflict the one declared first is
\* executed in an earlier batch, for every list of systems and accesses.
C37_DeclaredOrder_Original ==
    SchedDone =>
        \A p \in SchedOrderedConflicts : SchedRanAt(p[1]) < SchedRanAt(p[2])

\* C37: two systems in conflict are never executed in the same batch, and
\* the one declared later is executed in a later batch exactly when every
\* batch before the batch of the earlier one holds a system declared before
\* the later one and in conflict with it; otherwise the first fit puts it
\* into a batch that is executed before the earlier system.
C37_OrderUnlessEarlierFit ==
    SchedDone =>
        \A p \in SchedOrderedConflicts :
            /\ SchedRanAt(p[1]) /= SchedRanAt(p[2])
            /\ SchedRanAt(p[1]) < SchedRanAt(p[2]) <=>
                   \A k \in 1 .. SchedRanAt(p[1]) - 1 :
                       \E t \in RangeOf(sched.ran[k]) :
                           t < p[2] /\ Schedule_conflicts_in(sched.acc, t, p[2])

\* a schedule was executed in which the third system, in conflict with the
\* second one only, ran in the first batch, before the second system
C37_Witness ==
    /\ SchedDone
    /\ <<2, 3>> \in SchedOrderedConflicts
    /\ <<1, 2>> \in SchedOrderedConflicts
    /\ SchedRanAt(3) = 1
    /\ SchedRanAt(2) = 2

\* the sorted lists of components fetch_archetype is called with
SortedComponentLists ==
    {l \in UNION {[1 .. n -> ComponentIds] : n \in 0 .. NumComponents} :
        \A k \in 1 .. Len(l) - 1 : l[k] <= l[k + 1]}

\* no two archetypes hold the same set of components
ArchetypesDistinct ==
    \A i \in DOMAIN archetypes, j \in DOMAIN archetypes :
        i /= j => RangeOf(archetypes[i].components) /= RangeOf(archetypes[j].components)

\* an archetype holds the components of the edges that lead to it from the
\* root, and the edges of its own components lead from the root to it
ArchetypesOnPath ==
    /\ archetypes[1].components = <<>>
    /\ \A i \in DOMAIN archetypes : \A c \in DOMAIN archetypes[i].add :
           World_archetype(archetypes, archetypes[i].add[c]).components
               = Append(archetypes[i].components, c)
    /\ \A i \in DOMAIN archetypes :
           World_fetch_archetype(archetypes, 0, archetypes[i].components)
               = [archetypes |-> archetypes, id |-> i - 1]

\* a second fetch_archetype of the same list returns the id of the first
\* and creates no archetype
FetchArchetypeTwice ==
    \A l \in SortedComponentLists :
        LET twice(first) ==
                World_fetch_archetype(first.archetypes, 0, l) = first
        IN twice(World_fetch_archetype(archetypes, 0, l))

\* C40: after any sequence of spawn and insert calls no two archetypes of
\* the world have the same component set, every archetype reached through
\* edges from the root has exactly the components on its path, and a second
\* fetch_archetype of the same sorted list returns the same archetype id
\* without creating an archetype.
C40_ArchetypeGraph ==
    last.only_spawn_insert =>
        /\ ArchetypesDistinct
        /\ ArchetypesOnPath
        /\ FetchArchetypeTwice

\* C39: a query by the id of an alive entity does not panic and yields
\* exactly that entity: filter_slots narrows the slots of the archetype to
\* the single slot of the entity, and create_chunk accepts that slice
C39_EntityFetch ==
    (efetch.phase = "ran" /\ efetch.alive) =>
        /\ efetch.narrowed = <<Slice_single(Unwrap(efetch.loc).slot)>>
        /\ ~efetch.panicked
        /\ efetch.yielded = <<efetch.id>>

\* the entities whose archetype matches the filter of the subscriber
SubMatched(w, ids) ==
    {id \in ids : World_is_alive(w, id)
                  /\ StaticFilter_static_matches(sub.filter, ArchetypeOf(w, id))}

\* the events of one id, in the order they were sent
SubEventsOf(log, id) == SelectSeq(log, LAMBDA e : e.id = id)

\* the events of every id alternate, starting with Inserted
SubAlternates(log) ==
    \A id \in {log[k].id : k \in DOMAIN log} :
        \A k \in DOMAIN SubEventsOf(log, id) :
            SubEventsOf(log, id)[k].kind = IF k % 2 = 1 THEN "Inserted" ELSE "Removed"

TicksModifiedAt(archs, loc) ==
    TicksAt(archs[loc.archetype + 1].cells[1].modified, loc.slot)

\* read on a guard of the MaybeMut query records nothing
MaybeMutReadSilent ==
    ticks'.last.op = "read" => archetypes' = archetypes

\* write on a guard records a Modified change of the slot of the entity at
\* the tick of the borrow, unless a newer one covers the slot already, and
\* of no other slot
MaybeMutWriteRecords ==
    ticks'.last.op = "write" =>
        /\ Newest(TicksModifiedAt(archetypes', ticks'.last.loc))
               = Newest(TicksModifiedAt(archetypes, ticks'.last.loc)
                            \cup {ticks'.last.new_tick})
        /\ \A k \in DOMAIN archetypes :
               k /= ticks'.last.loc.archetype + 1 => archetypes'[k] = archetypes[k]
        /\ \A slot \in 0 .. MaxSpawns - 1 :
               slot /= ticks'.last.loc.slot
                   => TicksModifiedAt(archetypes', [ticks'.last.loc EXCEPT !.slot = slot])
                          = TicksModifiedAt(archetypes, [ticks'.last.loc EXCEPT !.slot = slot])

\* a run of the change query that follows a run of its own, with only the
\* MaybeMut query at work in between, yields exactly the entities written
MaybeMutSeen ==
    (ticks'.last.op = "iter" /\ ticks'.last.p = "changed"
         /\ ticks'.last.epoch.state = "clean") =>
        RangeOf(ticks'.last.yielded) = ticks'.last.epoch.written

\* C32: for a query fetching MaybeMut(c), read on the guards records no
\* Modified change of c, write records a Modified change at exactly the
\* slot of the entity with the tick of the borrow, and a later run of a
\* modified(c) query yields exactly the entities on which write was called
C32_MaybeMut ==
    [][MaybeMutReadSilent /\ MaybeMutWriteRecords /\ MaybeMutSeen]_vars

C32_ReadSilent == [][MaybeMutReadSilent]_vars
C32_WriteRecords == [][MaybeMutWriteRecords]_vars

\* C36: no change is missed by the tick protocol: a run of the modified(c)
\* query yields every entity whose c another query wrote after the borrow
\* of its previous run was created and which no run has yielded since
C36_NoChangeMissed ==
    [][(ticks'.last.op = "iter" /\ ticks'.last.p = "changed") =>
           ticks'.last.owed \subseteq RangeOf(ticks'.last.yielded)]_vars

====
